---- MODULE Spec2Model ----
(***************************************************************************)
(* The DXF codec of the AutoCAD LLM Sync tool.                             *)
(*                                                                         *)
(*   parseDxfToJson / parseBasicDxf / parseLine / parseInsert              *)
(*       (dxf-parser.service.ts): interchange text -> CadDocument          *)
(*   jsonToDxf / dxfHeader / dxfTables / dxfEntities / entityToDxf         *)
(*       (json-to-dxf.service.ts): CadDocument -> interchange text         *)
(*                                                                         *)
(*   jsonToScr (json-to-scr.service.ts): CadDocument -> command script     *)
(*   the handlers of autocad-llm-sync.vue, which load, edit, save and      *)
(*       reload a document through the codec                               *)
(*                                                                         *)
(* parseDxfToJson is modelled on its fallback path (no global DxfParser),   *)
(* which is parseBasicDxf; the main loop of parseBasicDxf and the body     *)
(* loops of parseLine / parseInsert are modelled one iteration per action, *)
(* and again as functions (MainLoop, parseLine, parseInsert) built from    *)
(* the same tests, so that the decoding of two texts can be compared.      *)
(*                                                                         *)
(* Representation.  A JavaScript string is modelled as the sequence of     *)
(* its segments between line breaks: "0\nEOF\n" is <<"0", "EOF", "">>.     *)
(* This is the array String.prototype.split('\n') returns, and every       *)
(* string has exactly one such representation; string concatenation is     *)
(* Concat below (it glues the last segment of the left operand to the      *)
(* first segment of the right one).  A JavaScript number is an integer of  *)
(* NumRange or NaN.  The value `undefined` read from past the end of the   *)
(* line array is the string Undefined.                                     *)
(***************************************************************************)
EXTENDS Integers, Sequences, FiniteSets, TLC

(***************************************************************************)
(* Bounds of the model.                                                    *)
(***************************************************************************)
MaxElems == 2       \* chunks of interchange text drawn for one input text
MaxEntities == 3    \* entities of an input document
MaxNum == 50        \* numbers are the integers -MaxNum..MaxNum, and NaN
MaxClock == 1       \* milliseconds the clock advances
MaxCalls == 2       \* invocations of parseDxfToJson on one text
MaxPending == 1     \* handler calls suspended at an await at one time
MaxModified == 1    \* writes to one file of the disk
MaxSizes == 3       \* sizes handed to resizeImage

NumRange == (0 - MaxNum)..MaxNum

(***************************************************************************)
(* JavaScript values.                                                      *)
(***************************************************************************)
\* NaN: a number outside NumRange that stands for the IEEE not-a-number.
NaN == 0 - (MaxNum + 1000)

\* `undefined` as read by lines[k] with k >= lines.length
Undefined == "<undefined>"

\* Truthiness of a string operand of `||` and `if (...)`
TruthyStr(s) == s # "" /\ s # Undefined

\* Truthiness of a number operand of `||`: 0 and NaN are falsy
TruthyNum(n) == n # 0 /\ n # NaN

\* IEEE equality: NaN equals nothing, itself included
NumEq(a, b) == a # NaN /\ b # NaN /\ a = b

Digit == <<"0", "1", "2", "3", "4", "5", "6", "7", "8", "9">>

\* Number -> string as a template literal `${n}` renders it
RECURSIVE NatToString(_)
NatToString(n) ==
    IF n < 10 THEN Digit[n + 1]
    ELSE NatToString(n \div 10) \o Digit[(n % 10) + 1]

NumberToString(n) ==
    IF n = NaN THEN "NaN"
    ELSE IF n < 0 THEN "-" \o NatToString(0 - n)
    ELSE NatToString(n)

\* The canonical decimal rendering of every number of NumRange
Decimal == [n \in NumRange |-> NumberToString(n)]

\* Numeric lexemes of interchange files that are not canonical renderings:
\* parseFloat reads the longest numeric prefix
Lexeme(s) ==
    CASE s = "10.0" -> 10
      [] s = "0.0" -> 0
      [] s = "5.0" -> 5
      [] s = "045" -> 45
      [] s = "2mm" -> 2
      [] OTHER -> NaN

\* Number.parseFloat on a trimmed line (or on undefined)
ParseFloat(s) ==
    IF \E n \in NumRange : Decimal[n] = s
    THEN CHOOSE n \in NumRange : Decimal[n] = s
    ELSE Lexeme(s)

\* String.prototype.trim on the segments the inputs use
Trim(s) ==
    CASE s = "  0" -> "0"
      [] s = "  8" -> "8"
      [] s = " 10" -> "10"
      [] s = " A " -> "A"
      [] OTHER -> s

\* a + b on strings
Concat(a, b) ==
    SubSeq(a, 1, Len(a) - 1) \o <<a[Len(a)] \o b[1]>> \o Tail(b)

\* A template literal whose every line ends with a line break
Template(ls) == ls \o <<"">>

\* The empty string
EmptyStr == <<"">>

(***************************************************************************)
(* json-to-dxf.service.ts                                                  *)
(***************************************************************************)
\* entity.f, or `undefined` replaced by d where the code writes entity.f || d
\* for an array or object field (arrays and objects are always truthy); with
\* d = Undefined, the plain property read entity.f
Field(e, f, d) == IF f \in DOMAIN e THEN e[f] ELSE d

\* the value entityToDxf returns for an unsupported kind
Null == <<>>

dxfHeader ==
    Template(<<"0", "SECTION", "2", "HEADER", "9", "$ACADVER", "1", "AC1015",
               "9", "$INSUNITS", "70", "0", "0", "ENDSEC">>)

\* Variant of CollectLayers with a list in place of the Set: a layer is
\* listed once per entity that uses it.
RECURSIVE CollectLayersList(_, _)
CollectLayersList(ents, n) ==
    IF n = 0 THEN <<"0">>
    ELSE IF TruthyStr(Field(ents[n], "layer", Undefined))
         THEN Append(CollectLayersList(ents, n - 1), ents[n].layer)
         ELSE CollectLayersList(ents, n - 1)

\* Variant of CollectLayers that collects the layers of LINE entities only.
RECURSIVE CollectLayersOfLines(_, _)
CollectLayersOfLines(ents, n) ==
    IF n = 0 THEN <<"0">>
    ELSE LET before == CollectLayersOfLines(ents, n - 1)
             layer == Field(ents[n], "layer", Undefined)
         IN  IF /\ Field(ents[n], "type", Undefined) = "LINE"
                /\ TruthyStr(layer) /\ \A k \in 1..Len(before) : before[k] # layer
             THEN Append(before, layer)
             ELSE before

\* The Set<string> of dxfTables in insertion order, after the first n entities
RECURSIVE CollectLayers(_, _)
CollectLayers(ents, n) ==
    IF n = 0 THEN <<"0">>
    ELSE LET before == CollectLayers(ents, n - 1)
             layer == Field(ents[n], "layer", Undefined)
         IN  IF TruthyStr(layer) /\ \A k \in 1..Len(before) : before[k] # layer
             THEN Append(before, layer)
             ELSE before

LayerRecord(layer) ==
    Template(<<"0", "LAYER", "2", layer, "70", "0", "62", "7", "6", "CONTINUOUS">>)

RECURSIVE LayerRecords(_, _)
LayerRecords(layers, n) ==
    IF n = 0 THEN EmptyStr
    ELSE Concat(LayerRecords(layers, n - 1), LayerRecord(layers[n]))

dxfTables(document) ==
    LET layers == CollectLayers(document.entities, Len(document.entities))
        head == Template(<<"0", "SECTION", "2", "TABLES", "0", "TABLE", "2", "LAYER",
                           "70", NumberToString(Len(layers))>>)
        tail == Template(<<"0", "ENDTAB", "0", "ENDSEC">>)
    IN  Concat(Concat(head, LayerRecords(layers, Len(layers))), tail)

\* Variant of lineToDxf that writes the layer without its group code.
lineToDxfBareLayer(entity) ==
    LET start == Field(entity, "start", <<0, 0, 0>>)
        end == Field(entity, "end", <<0, 0, 0>>)
        layer == IF TruthyStr(entity.layer) THEN entity.layer ELSE "0"
    IN  Template(<<"0", "LINE", layer,
                   "10", NumberToString(start[1]),
                   "20", NumberToString(start[2]),
                   "30", NumberToString(start[3]),
                   "11", NumberToString(end[1]),
                   "21", NumberToString(end[2]),
                   "31", NumberToString(end[3])>>)

lineToDxf(entity) ==
    LET start == Field(entity, "start", <<0, 0, 0>>)
        end == Field(entity, "end", <<0, 0, 0>>)
        layer == IF TruthyStr(entity.layer) THEN entity.layer ELSE "0"
    IN  Template(<<"0", "LINE", "8", layer,
                   "10", NumberToString(start[1]),
                   "20", NumberToString(start[2]),
                   "30", NumberToString(start[3]),
                   "11", NumberToString(end[1]),
                   "21", NumberToString(end[2]),
                   "31", NumberToString(end[3])>>)

insertToDxf(entity) ==
    LET insertionPoint == Field(entity, "insertion_point", <<0, 0, 0>>)
        scale == Field(entity, "scale", <<1, 1, 1>>)
        rotation == IF TruthyNum(Field(entity, "rotation", 0)) THEN entity.rotation ELSE 0
        blockName == IF TruthyStr(Field(entity, "block", "")) THEN entity.block ELSE "UNKNOWN"
        layer == IF TruthyStr(entity.layer) THEN entity.layer ELSE "0"
    IN  Template(<<"0", "INSERT", "2", blockName, "8", layer,
                   "10", NumberToString(insertionPoint[1]),
                   "20", NumberToString(insertionPoint[2]),
                   "30", NumberToString(insertionPoint[3]),
                   "41", NumberToString(scale[1]),
                   "42", NumberToString(scale[2]),
                   "43", NumberToString(scale[3]),
                   "50", NumberToString(rotation)>>)

circleToDxf(entity) ==
    LET center == Field(entity, "center", [x |-> 0, y |-> 0, z |-> 0])
        radius == IF TruthyNum(Field(entity, "radius", 0)) THEN entity.radius ELSE 1
        layer == IF TruthyStr(entity.layer) THEN entity.layer ELSE "0"
    IN  Template(<<"0", "CIRCLE", "8", layer,
                   "10", NumberToString(center.x),
                   "20", NumberToString(center.y),
                   "30", NumberToString(center.z),
                   "40", NumberToString(radius)>>)

entityToDxf(entity) ==
    LET type == Field(entity, "type", Undefined)
    IN  CASE type = "LINE" -> lineToDxf(entity)
          [] type = "INSERT" -> insertToDxf(entity)
          [] type = "CIRCLE" -> circleToDxf(entity)
          [] OTHER -> Null

RECURSIVE EntityRecords(_, _)
EntityRecords(ents, n) ==
    IF n = 0 THEN Template(<<"0", "SECTION", "2", "ENTITIES">>)
    ELSE LET dxf == entityToDxf(ents[n])
         IN  IF dxf # Null
             THEN Concat(EntityRecords(ents, n - 1), dxf)
             ELSE EntityRecords(ents, n - 1)

\* Variant of dxfEntities that leaves the ENTITIES section open.
dxfEntitiesUnclosed(ents) == EntityRecords(ents, Len(ents))

dxfEntities(ents) ==
    Concat(EntityRecords(ents, Len(ents)), Template(<<"0", "ENDSEC">>))

\* A value handed to jsonToDxf is a record.  Its field `entities` is the
\* sequence that `for (const entity of document.entities)` iterates: the
\* elements of an array, or the characters of a string (records without
\* the fields an entity has: every property read the encoder makes on them gives
\* undefined).  A value whose
\* `entities` is undefined, null, a number or a plain object has no such field
\* and names that type in `entitiesIs`.  The value null is JsNull.
JsNull == [isNull |-> TRUE]

\* the index of the first null element of document.entities, or 0
FirstNull(document) ==
    LET nulls == { k \in 1..Len(document.entities) : document.entities[k] = JsNull }
    IN  IF nulls = {} THEN 0 ELSE CHOOSE k \in nulls : \A r \in nulls : k <= r

\* jsonToDxf throws: the for...of of dxfTables on a value that is not
\* iterable, or the read of entity.layer on null
jsonToDxfThrows(document) ==
    IF "entities" \notin DOMAIN document THEN TRUE ELSE FirstNull(document) # 0

\* the TypeError thrown: an Error has a name and a message
jsonToDxfError(document) ==
    [name |-> "TypeError",
     message |-> IF "entities" \notin DOMAIN document
                 THEN "document.entities is not iterable"
                 ELSE "Cannot read properties of null (reading 'layer')"]

\* sections.join('')
jsonToDxf(document) ==
    Concat(Concat(Concat(Concat(EmptyStr, dxfHeader), dxfTables(document)),
                  dxfEntities(document.entities)),
           Template(<<"0", "EOF">>))

\* What jsonToDxf hands to its caller besides the text: its return value is
\* the joined string alone, and dxfEntities drops the null that entityToDxf
\* gives for an unsupported kind without recording anything.
jsonToDxfWarnings(document) == <<>>

(***************************************************************************)
(* json-to-scr.service.ts (the script encoder).  A script is the sequence  *)
(* of its command lines and a command line the sequence of its tokens,     *)
(* which single spaces separate.                                           *)
(***************************************************************************)
Quoted(s) == "\"" \o s \o "\""

\* the coordinate pair X,Y
XY(x, y) == NumberToString(x) \o "," \o NumberToString(y)

lineToScr(entity) ==
    LET start == Field(entity, "start", <<0, 0, 0>>)
        end == Field(entity, "end", <<0, 0, 0>>)
    IN  <<"_LINE", XY(start[1], start[2]), XY(end[1], end[2])>>

\* Variant of insertToScr that writes the three scale factors.
insertToScrWithZ(entity) ==
    LET insertionPoint == Field(entity, "insertion_point", <<0, 0, 0>>)
        scale == Field(entity, "scale", <<1, 1, 1>>)
    IN  <<"_-INSERT", Quoted(Field(entity, "block", "")),
          XY(insertionPoint[1], insertionPoint[2]),
          NumberToString(scale[1]), NumberToString(scale[2]), NumberToString(scale[3]),
          NumberToString(Field(entity, "rotation", 0))>>

insertToScr(entity) ==
    LET insertionPoint == Field(entity, "insertion_point", <<0, 0, 0>>)
        scale == Field(entity, "scale", <<1, 1, 1>>)
    IN  <<"_-INSERT", Quoted(Field(entity, "block", "")),
          XY(insertionPoint[1], insertionPoint[2]),
          NumberToString(scale[1]), NumberToString(scale[2]),
          NumberToString(Field(entity, "rotation", 0))>>

circleToScr(entity) ==
    LET center == Field(entity, "center", [x |-> 0, y |-> 0, z |-> 0])
    IN  <<"_CIRCLE", XY(center.x, center.y), NumberToString(Field(entity, "radius", 1))>>

entityToScr(entity) ==
    LET type == Field(entity, "type", Undefined)
    IN  CASE type = "LINE" -> lineToScr(entity)
          [] type = "INSERT" -> insertToScr(entity)
          [] type = "CIRCLE" -> circleToScr(entity)
          [] OTHER -> Null

RECURSIVE ScrCommands(_, _)
ScrCommands(ents, n) ==
    IF n = 0 THEN <<>>
    ELSE LET command == entityToScr(ents[n])
         IN  IF command # Null
             THEN Append(ScrCommands(ents, n - 1), command)
             ELSE ScrCommands(ents, n - 1)

\* a value that is not a well-formed document: the script encoder aborts
jsonToScrThrows(document) ==
    IF "entities" \notin DOMAIN document \/ "entitiesIs" \in DOMAIN document
    THEN TRUE
    ELSE \E k \in 1..Len(document.entities) : "type" \notin DOMAIN document.entities[k]

jsonToScr(document) == ScrCommands(document.entities, Len(document.entities))

(***************************************************************************)
(* dxf-parser.service.ts                                                   *)
(***************************************************************************)
\* lines[k] of a JavaScript array (0-based; undefined past the end)
At(ls, k) == IF k < Len(ls) THEN ls[k + 1] ELSE Undefined

\* fileContent.split('\n').map(line => line.trim())
SplitTrim(text) == [k \in 1..Len(text) |-> Trim(text[k])]

\* the two tests that open the ENTITIES section
IsEntitiesHeader(ls, k) ==
    /\ At(ls, k) = "0" /\ At(ls, k + 1) = "SECTION"
    /\ At(ls, k + 2) = "2" /\ At(ls, k + 3) = "ENTITIES"

\* the test that closes the ENTITIES section
IsEndOfEntities(ls, k, inSection) ==
    At(ls, k) = "0" /\ At(ls, k + 1) = "ENDSEC" /\ inSection

\* the test that dispatches an entity record to parseLine / parseInsert
IsEntityStart(ls, k, inSection, kind) ==
    inSection /\ At(ls, k) = "0" /\ At(ls, k + 1) = kind

\* Variant of BodyContinues that ends a body only at a record the decoder
\* knows: the body of an entity runs through a following unknown record.
BodyContinuesToKnown(ls, k) ==
    /\ k < Len(ls)
    /\ ~(At(ls, k) = "0"
          /\ At(ls, k + 1) \in {"LINE", "INSERT", "SECTION", "ENDSEC", "EOF"})

\* the loop condition of parseLine and parseInsert
BodyContinues(ls, k) == k < Len(ls) /\ At(ls, k) # "0"

NewLine == [type |-> "LINE", layer |-> "0", start |-> <<0, 0, 0>>, end |-> <<0, 0, 0>>]

\* Variant of NewInsert with a zero scale and no layer.
NewInsertZero ==
    [type |-> "INSERT", layer |-> "", block |-> "",
     insertion_point |-> <<0, 0, 0>>, scale |-> <<0, 0, 0>>, rotation |-> 0]

NewInsert ==
    [type |-> "INSERT", layer |-> "0", block |-> "",
     insertion_point |-> <<0, 0, 0>>, scale |-> <<1, 1, 1>>, rotation |-> 0]

\* Variant of LineField in which codes 11/21/31 write the start point.
LineFieldStartOnly(e, code, value) ==
    CASE code = "8" -> [e EXCEPT !.layer = value]
      [] code \in {"10", "11"} -> [e EXCEPT !.start[1] = ParseFloat(value)]
      [] code \in {"20", "21"} -> [e EXCEPT !.start[2] = ParseFloat(value)]
      [] code \in {"30", "31"} -> [e EXCEPT !.start[3] = ParseFloat(value)]
      [] OTHER -> e

\* Variant of LineField in which a code outside the table starts the entity
\* over from its defaults.
LineFieldUnknownResets(e, code, value) ==
    CASE code = "8" -> [e EXCEPT !.layer = value]
      [] code = "10" -> [e EXCEPT !.start[1] = ParseFloat(value)]
      [] code = "20" -> [e EXCEPT !.start[2] = ParseFloat(value)]
      [] code = "30" -> [e EXCEPT !.start[3] = ParseFloat(value)]
      [] code = "11" -> [e EXCEPT !.end[1] = ParseFloat(value)]
      [] code = "21" -> [e EXCEPT !.end[2] = ParseFloat(value)]
      [] code = "31" -> [e EXCEPT !.end[3] = ParseFloat(value)]
      [] OTHER -> NewLine

\* the if/else-if chain of parseLine's loop body
LineField(e, code, value) ==
    CASE code = "8" -> [e EXCEPT !.layer = value]
      [] code = "10" -> [e EXCEPT !.start[1] = ParseFloat(value)]
      [] code = "20" -> [e EXCEPT !.start[2] = ParseFloat(value)]
      [] code = "30" -> [e EXCEPT !.start[3] = ParseFloat(value)]
      [] code = "11" -> [e EXCEPT !.end[1] = ParseFloat(value)]
      [] code = "21" -> [e EXCEPT !.end[2] = ParseFloat(value)]
      [] code = "31" -> [e EXCEPT !.end[3] = ParseFloat(value)]
      [] OTHER -> e

\* the if/else-if chain of parseInsert's loop body
InsertField(e, code, value) ==
    CASE code = "2" -> [e EXCEPT !.block = value]
      [] code = "8" -> [e EXCEPT !.layer = value]
      [] code = "10" -> [e EXCEPT !.insertion_point[1] = ParseFloat(value)]
      [] code = "20" -> [e EXCEPT !.insertion_point[2] = ParseFloat(value)]
      [] code = "30" -> [e EXCEPT !.insertion_point[3] = ParseFloat(value)]
      [] code = "41" -> [e EXCEPT !.scale[1] = ParseFloat(value)]
      [] code = "42" -> [e EXCEPT !.scale[2] = ParseFloat(value)]
      [] code = "43" -> [e EXCEPT !.scale[3] = ParseFloat(value)]
      [] OTHER -> e

\* parseLine as a function of (lines, startIndex): the body loop from cursor k
RECURSIVE parseLineFrom(_, _, _)
parseLineFrom(ls, k, e) ==
    IF BodyContinues(ls, k)
    THEN parseLineFrom(ls, k + 2, LineField(e, At(ls, k), At(ls, k + 1)))
    ELSE e

parseLine(ls, startIndex) == parseLineFrom(ls, startIndex + 2, NewLine)

\* parseInsert as a function of (lines, startIndex)
RECURSIVE parseInsertFrom(_, _, _)
parseInsertFrom(ls, k, e) ==
    IF BodyContinues(ls, k)
    THEN parseInsertFrom(ls, k + 2, InsertField(e, At(ls, k), At(ls, k + 1)))
    ELSE e

parseInsert(ls, startIndex) == parseInsertFrom(ls, startIndex + 2, NewInsert)

\* the main loop of parseBasicDxf as a function: the entities it returns when
\* entered with cursor k, section flag inSection and entity list ents
RECURSIVE MainLoop(_, _, _, _)
MainLoop(ls, k, inSection, ents) ==
    IF ~(k < Len(ls)) THEN ents
    ELSE IF IsEntitiesHeader(ls, k) THEN MainLoop(ls, k + 4, TRUE, ents)
    ELSE IF IsEndOfEntities(ls, k, inSection) THEN MainLoop(ls, k + 2, FALSE, ents)
    ELSE IF IsEntityStart(ls, k, inSection, "LINE")
         THEN MainLoop(ls, k + 2, inSection, Append(ents, parseLine(ls, k)))
    ELSE IF IsEntityStart(ls, k, inSection, "INSERT")
         THEN MainLoop(ls, k + 2, inSection, Append(ents, parseInsert(ls, k)))
    ELSE MainLoop(ls, k + 2, inSection, ents)

\* the entities of parseBasicDxf(fileContent), from the trimmed lines
parseLines(ls) == MainLoop(ls, 0, FALSE, <<>>)

parseBasicDxf(text) == parseLines(SplitTrim(text))

\* new Date(t).toISOString() for the first milliseconds of the epoch
ToISOString(t) == "1970-01-01T00:00:00.00" \o Digit[t + 1] \o "Z"

\* the CadDocument parseBasicDxf returns when the clock reads t
CadDocument(ents, t) ==
    [entities |-> ents, metadata |-> [version |-> 1, lastModified |-> ToISOString(t)]]

(***************************************************************************)
(* State.                                                                  *)
(***************************************************************************)
VARIABLES
    document,           \* the CadDocument handed to jsonToDxf
    fileContent,        \* the text handed to parseDxfToJson
    lines,              \* parseBasicDxf: the trimmed lines
    i,                  \* parseBasicDxf: the cursor of the main loop
    inEntitiesSection,  \* parseBasicDxf: the section flag
    entities,           \* parseBasicDxf: the entities decoded so far
    j,                  \* parseLine / parseInsert: the cursor of the body loop
    entity,             \* parseLine / parseInsert: the entity under construction
    dxf,                \* the text jsonToDxf gives for the decoded document
    pc,                 \* where control is
    thrown,             \* the error jsonToDxf threw
    now,                \* the clock read by new Date(), in milliseconds
    returned,           \* the documents parseDxfToJson has returned, in call order
    scr,                \* the script jsonToScr gives for the document
    currentDocument,    \* autocad-llm-sync.vue: the document shown, or null
    jsonContent,        \* autocad-llm-sync.vue: the text of the JSON editor
    scrContent,         \* autocad-llm-sync.vue: the script view
    dxfContent,         \* autocad-llm-sync.vue: the DXF view, which Save to Disk writes
    currentFileHandle,  \* autocad-llm-sync.vue: the file handle held, or null
    fileMetadata,       \* autocad-llm-sync.vue: the metadata of the file shown, or null
    storedMetadata,     \* localStorage: the item of file-storage.service, or null
    disk,               \* the files of the user's disk
    pending,            \* the handler calls suspended at an await
    loadedFrom,         \* history: the file the current document was last loaded from
    handle,             \* writeFileToHandle: the file the handle names
    content,            \* writeFileToHandle: the content to write
    permissionState,    \* the browser's readwrite permission for the handle
    permission,         \* writeFileToHandle: what queryPermission gave
    newPermission,      \* writeFileToHandle: what requestPermission gave
    permissionRequests, \* history: the calls of requestPermission
    writable,           \* writeFileToHandle: the writable stream, once created
    writeError,         \* writeFileToHandle: the error the call rejects with
    wpc,                \* writeFileToHandle: where control is
    sizes,              \* resizeImage: the sizes requested
    img,                \* resizeImage: the state of the Image
    promises,           \* resizeImage: the sizes' indices whose toBlob callback has not run
    blobs,              \* resizeImage: the blobs pushed so far
    resolved            \* resizeImage: what the returned promise settled with

codecVars == <<document, fileContent, lines, i, inEntitiesSection, entities, j, entity, dxf, pc,
               thrown, now, returned, scr>>

uiVars == <<currentDocument, jsonContent, scrContent, dxfContent, currentFileHandle,
            fileMetadata, storedMetadata, disk, pending, loadedFrom>>

\* the view's variables but the disk
viewVars == <<currentDocument, jsonContent, scrContent, dxfContent, currentFileHandle,
              fileMetadata, storedMetadata, pending, loadedFrom>>

writeVars == <<handle, content, permissionState, permission, newPermission,
               permissionRequests, writable, writeError, wpc>>

resizeVars == <<sizes, img, promises, blobs, resolved>>

serviceVars == <<writeVars, resizeVars>>

vars == <<codecVars, uiVars, serviceVars>>

NoEntity == [type |-> "NONE", layer |-> ""]
NoError == [name |-> "", message |-> ""]
NoDocument == [entities |-> <<>>]

\* handle.createWritable() has not been called
NoWritable == [state |-> "none", data |-> <<"">>]

\* the promise resizeImage returns is pending
Unsettled == [state |-> "pending", value |-> <<>>]

(***************************************************************************)
(* Inputs: interchange texts.  A text is an optional ENTITIES header, up   *)
(* to MaxElems chunks, an optional ENDSEC and EOF, and an optional final   *)
(* segment (a dangling line, or the empty segment of a text that ends      *)
(* with a line break).                                                     *)
(***************************************************************************)
ScenarioALine ==
    <<"0", "LINE", "8", "0", "10", "0", "20", "0", "30", "0",
      "11", "10", "21", "0", "31", "0">>

Chunks ==
    { <<"0", "SECTION", "2", "ENTITIES">>,
      <<"0", "SECTION", "2", "HEADER">>,
      <<"0", "ENDSEC">>,
      ScenarioALine,
      <<"  0", "LINE", "  8", " A ", " 10", "10.0", "62", "7", "21", "abc", "8", "B">>,
      <<"0", "LINE">>,
      <<"0", "INSERT", "2", "CHAIR", "8", "FURN", "10", "1", "20", "2", "30", "0",
        "41", "2", "42", "3", "43", "4", "50", "45">>,
      <<"0", "INSERT", "2", "DESK", "10", "5.0">>,
      <<"0", "CIRCLE", "8", "C", "10", "1", "20", "2", "30", "0", "40", "5">>,
      <<"0", "TEXT", "8", "T", "1", "hello", "10", "7">> }

RECURSIVE ChunkSeqs(_)
ChunkSeqs(n) ==
    IF n = 0 THEN { <<>> }
    ELSE ChunkSeqs(n - 1) \cup
         { body \o c : body \in ChunkSeqs(n - 1), c \in Chunks }

Openings == { <<>>, <<"0", "SECTION", "2", "ENTITIES">> }

FinalSegments == { <<>>, <<"">>, <<"8">>, <<"8", "">>, <<"10">> }

Closings == { <<>>, <<"0", "ENDSEC", "0", "EOF">> }

Texts ==
    { o \o b \o c \o f :
        o \in Openings, b \in ChunkSeqs(MaxElems), c \in Closings, f \in FinalSegments }
        \ { <<>> }

(***************************************************************************)
(* Inputs: documents of up to MaxEntities entities.                        *)
(***************************************************************************)
EntityValues ==
    { [type |-> "LINE", layer |-> "0", start |-> <<0, 0, 0>>, end |-> <<10, 0, 0>>],
      [type |-> "LINE", layer |-> "A", start |-> <<1, 2, 3>>, end |-> <<4, 5, 6>>],
      [type |-> "LINE", layer |-> ""],
      [type |-> "INSERT", layer |-> "FURN", block |-> "CHAIR",
       insertion_point |-> <<1, 2, 0>>, scale |-> <<1, 1, 1>>, rotation |-> 45],
      [type |-> "INSERT", layer |-> "A", block |-> "DESK",
       insertion_point |-> <<0, 0, 0>>, scale |-> <<2, 2, 2>>, rotation |-> 0],
      [type |-> "INSERT", layer |-> "0", block |-> ""],
      [type |-> "CIRCLE", layer |-> "A", center |-> [x |-> 1, y |-> 2, z |-> 0],
       radius |-> 5],
      [type |-> "TEXT", layer |-> "T"] }

RECURSIVE EntitySeqs(_)
EntitySeqs(n) ==
    IF n = 0 THEN { <<>> }
    ELSE EntitySeqs(n - 1) \cup
         { Append(es, e) : es \in EntitySeqs(n - 1), e \in EntityValues }

Documents == { [entities |-> es] : es \in EntitySeqs(MaxEntities) }

\* values handed to jsonToDxf that are not well-formed documents as well
SchemaEntityValues == EntityValues \cup { [layer |-> "U"], JsNull }

RECURSIVE SchemaSeqs(_)
SchemaSeqs(n) ==
    IF n = 0 THEN { <<>> }
    ELSE SchemaSeqs(n - 1) \cup
         { Append(es, e) : es \in SchemaSeqs(n - 1), e \in SchemaEntityValues }

SchemaValues ==
    { [entities |-> es] : es \in SchemaSeqs(MaxEntities) }
        \cup { [entitiesIs |-> t] : t \in {"undefined", "null", "number", "object"} }
        \cup { [entities |-> <<[char |-> "A"], [char |-> "B"]>>, entitiesIs |-> "string"] }

\* texts decoded to the end under fairness: a header, a closing, a record of
\* each decoded kind and a record of another kind
RunChunks ==
    { <<"0", "SECTION", "2", "ENTITIES">>,
      <<"0", "ENDSEC">>,
      <<"  0", "LINE", "  8", " A ", " 10", "10.0", "62", "7", "21", "abc", "8", "B">>,
      <<"0", "INSERT", "2", "DESK", "10", "5.0">>,
      <<"0", "TEXT", "8", "T", "1", "hello", "10", "7">> }

RECURSIVE RunChunkSeqs(_)
RunChunkSeqs(n) ==
    IF n = 0 THEN { <<>> }
    ELSE RunChunkSeqs(n - 1) \cup
         { body \o c : body \in RunChunkSeqs(n - 1), c \in RunChunks }

RunTexts ==
    { o \o b \o c \o f :
        o \in Openings, b \in RunChunkSeqs(MaxElems - 1), c \in Closings, f \in FinalSegments }
        \ { <<>> }

\* texts decoded more than once
RepeatedTexts ==
    { o \o b \o c \o f :
        o \in Openings, b \in ChunkSeqs(MaxElems - 1), c \in Closings, f \in FinalSegments }
        \ { <<>> }

(***************************************************************************)
(* autocad-llm-sync.vue: values.  A file handle is the name of its file;   *)
(* a File is a snapshot of name, content and modification time; the text   *)
(* of the JSON editor is a record that holds the value it parses to when   *)
(* it is valid JSON.  successMessage, errorMessage and                     *)
(* isCheckingForChanges are not modelled, nor are the size and type of a   *)
(* file.                                                                   *)
(***************************************************************************)
Files == {"a.dxf", "b.dxf"}

\* currentFileHandle.value === null
NoHandle == "<null>"

\* no document has been loaded
NoSource == [file |-> NoHandle, via |-> "none"]

\* the INSERT of scenario B as interchange text
ScenarioBText ==
    <<"0", "SECTION", "2", "ENTITIES",
      "0", "INSERT", "2", "CHAIR", "8", "FURN", "10", "1", "20", "2", "30", "0",
      "41", "1", "42", "1", "43", "1", "50", "45",
      "0", "ENDSEC", "0", "EOF", "">>

\* the text of scenario A: one LINE on layer "0" from (0,0,0) to (10,0,0)
ScenarioAText ==
    <<"0", "SECTION", "2", "ENTITIES">> \o ScenarioALine
        \o <<"0", "ENDSEC", "0", "EOF", "">>

DiskAtStart ==
    [f \in Files |->
        [content |-> IF f = "a.dxf" THEN ScenarioAText ELSE ScenarioBText,
         lastModified |-> 0]]

\* the contents another program may give a file
ExternalTexts == { ScenarioAText, ScenarioBText }

\* handle.getFile(): the File of the file named f
FileOf(d, f) == [name |-> f, content |-> d[f].content, lastModified |-> d[f].lastModified]

\* createFileMetadata(file) when the clock reads t
createFileMetadata(file, t) ==
    [name |-> file.name, lastModified |-> file.lastModified, lastSyncTime |-> t]

\* the empty text of the JSON editor
EmptyJson == [text |-> ""]

\* JSON.stringify(value, null, 2): the text that parses to value (the
\* documents of this model hold no NaN and no undefined field)
JsonStringify(value) == [text |-> "json", value |-> value]

\* JSON.parse(text) throws a SyntaxError
JsonParseThrows(text) == "value" \notin DOMAIN text

JsonParse(text) == text.value

\* the texts a user leaves in the JSON editor: a document, the object {} and a
\* text that is not JSON
EditedTexts ==
    { JsonStringify([entities |-> <<[type |-> "LINE", layer |-> "A",
                                     start |-> <<1, 2, 3>>, end |-> <<4, 5, 6>>],
                                    [type |-> "TEXT", layer |-> "T"]>>]),
      JsonStringify([entitiesIs |-> "undefined"]),
      [text |-> "{ \"entities\": ["] }

(***************************************************************************)
(* Initial states.                                                         *)
(***************************************************************************)
InitCodec ==
    /\ lines = <<>>
    /\ i = 0
    /\ inEntitiesSection = FALSE
    /\ entities = <<>>
    /\ j = 0
    /\ entity = NoEntity
    /\ dxf = EmptyStr
    /\ thrown = NoError
    /\ now = 0
    /\ returned = <<>>
    /\ scr = <<>>

\* the component after setup; fileMetadata is loaded from localStorage
ViewAtStart(stored) ==
    /\ currentDocument = JsNull
    /\ jsonContent = EmptyJson
    /\ scrContent = <<>>
    /\ dxfContent = EmptyStr
    /\ currentFileHandle = NoHandle
    /\ fileMetadata = stored
    /\ storedMetadata = stored
    /\ disk = DiskAtStart
    /\ pending = {}
    /\ loadedFrom = NoSource

\* no call of writeFileToHandle is under way
WriteAtRest ==
    /\ handle = NoHandle
    /\ content = EmptyStr
    /\ permissionState = "prompt"
    /\ permission = Undefined
    /\ newPermission = Undefined
    /\ permissionRequests = 0
    /\ writable = NoWritable
    /\ writeError = NoError
    /\ wpc = "idle"

\* no call of resizeImage is under way
ResizeAtRest ==
    /\ sizes = <<>>
    /\ img = "none"
    /\ promises = {}
    /\ blobs = <<>>
    /\ resolved = Unsettled

InitCommon == InitCodec /\ ViewAtStart(JsNull) /\ WriteAtRest /\ ResizeAtRest

\* the component is mounted; localStorage may hold the metadata of a file of
\* an earlier session
InitView ==
    /\ InitCodec
    /\ document = NoDocument
    /\ fileContent = EmptyStr
    /\ pc = "view"
    /\ \E stored \in {JsNull, createFileMetadata(FileOf(DiskAtStart, "a.dxf"), 0)} :
          ViewAtStart(stored)
    /\ WriteAtRest /\ ResizeAtRest

\* a text is about to be decoded
InitText ==
    /\ InitCommon
    /\ document = NoDocument
    /\ fileContent \in Texts
    /\ pc = "parse"

\* a document is about to be encoded
InitDoc ==
    /\ InitCommon
    /\ document \in Documents
    /\ fileContent = EmptyStr
    /\ pc = "encode"

\* a value is about to be handed to jsonToDxf
InitSchema ==
    /\ InitCommon
    /\ document \in SchemaValues
    /\ fileContent = EmptyStr
    /\ pc = "encode"

\* a text is about to be decoded to the end
InitRun ==
    /\ InitCommon
    /\ document = NoDocument
    /\ fileContent \in RunTexts
    /\ pc = "parse"

\* a text is about to be decoded, more than once
InitRepeated ==
    /\ InitCommon
    /\ document = NoDocument
    /\ fileContent \in RepeatedTexts
    /\ pc = "parse"

(***************************************************************************)
(* Actions.                                                                *)
(***************************************************************************)
\* jsonToDxf(document) throws
EncodeThrows ==
    /\ pc = "encode"
    /\ jsonToDxfThrows(document)
    /\ thrown' = jsonToDxfError(document)
    /\ pc' = "threw"
    /\ UNCHANGED <<document, fileContent, lines, i, inEntitiesSection, entities, j, entity, dxf>>
    /\ UNCHANGED <<now, returned, scr>>
    /\ UNCHANGED uiVars
    /\ UNCHANGED serviceVars

\* jsonToScr(document)
EncodeScript ==
    /\ pc = "encode"
    /\ ~jsonToScrThrows(document)
    /\ scr' = jsonToScr(document)
    /\ pc' = "script"
    /\ UNCHANGED <<document, fileContent, lines, i, inEntitiesSection, entities, j, entity, dxf>>
    /\ UNCHANGED <<thrown, now, returned>>
    /\ UNCHANGED uiVars
    /\ UNCHANGED serviceVars

\* time passes
Tick ==
    /\ now < MaxClock
    /\ now' = now + 1
    /\ UNCHANGED <<document, fileContent, lines, i, inEntitiesSection, entities, j, entity, dxf, pc>>
    /\ UNCHANGED <<thrown, returned, scr>>
    /\ UNCHANGED uiVars
    /\ UNCHANGED serviceVars

\* parseDxfToJson is called on the same text again
CallAgain ==
    /\ pc = "done"
    /\ Len(returned) < MaxCalls
    /\ pc' = "parse"
    /\ UNCHANGED <<document, fileContent, lines, i, inEntitiesSection, entities, j, entity, dxf>>
    /\ UNCHANGED <<thrown, now, returned, scr>>
    /\ UNCHANGED uiVars
    /\ UNCHANGED serviceVars

\* jsonToDxf(document); its output is then decoded
EncodeDocument ==
    /\ pc = "encode"
    /\ ~jsonToDxfThrows(document)
    /\ fileContent' = jsonToDxf(document)
    /\ pc' = "parse"
    /\ UNCHANGED <<document, lines, i, inEntitiesSection, entities, j, entity, dxf>>
    /\ UNCHANGED <<thrown, now, returned, scr>>
    /\ UNCHANGED uiVars
    /\ UNCHANGED serviceVars

\* parseBasicDxf up to the main loop
CallParseBasicDxf ==
    /\ pc = "parse"
    /\ lines' = SplitTrim(fileContent)
    /\ entities' = <<>>
    /\ i' = 0
    /\ inEntitiesSection' = FALSE
    /\ pc' = "main"
    /\ UNCHANGED <<document, fileContent, j, entity, dxf>>
    /\ UNCHANGED <<thrown, now, returned, scr>>
    /\ UNCHANGED uiVars
    /\ UNCHANGED serviceVars

\* main loop: 0/SECTION followed by 2/ENTITIES
EnterEntities ==
    /\ pc = "main" /\ i < Len(lines)
    /\ IsEntitiesHeader(lines, i)
    /\ inEntitiesSection' = TRUE
    /\ i' = i + 4
    /\ UNCHANGED <<document, fileContent, lines, entities, j, entity, dxf, pc>>
    /\ UNCHANGED <<thrown, now, returned, scr>>
    /\ UNCHANGED uiVars
    /\ UNCHANGED serviceVars

\* main loop: 0/ENDSEC inside the ENTITIES section
LeaveEntities ==
    /\ pc = "main" /\ i < Len(lines)
    /\ ~IsEntitiesHeader(lines, i)
    /\ IsEndOfEntities(lines, i, inEntitiesSection)
    /\ inEntitiesSection' = FALSE
    /\ i' = i + 2
    /\ UNCHANGED <<document, fileContent, lines, entities, j, entity, dxf, pc>>
    /\ UNCHANGED <<thrown, now, returned, scr>>
    /\ UNCHANGED uiVars
    /\ UNCHANGED serviceVars

\* main loop: 0/LINE inside the ENTITIES section calls parseLine
CallParseLine ==
    /\ pc = "main" /\ i < Len(lines)
    /\ ~IsEntitiesHeader(lines, i)
    /\ ~IsEndOfEntities(lines, i, inEntitiesSection)
    /\ IsEntityStart(lines, i, inEntitiesSection, "LINE")
    /\ entity' = NewLine
    /\ j' = i + 2
    /\ pc' = "parseLine"
    /\ UNCHANGED <<document, fileContent, lines, i, inEntitiesSection, entities, dxf>>
    /\ UNCHANGED <<thrown, now, returned, scr>>
    /\ UNCHANGED uiVars
    /\ UNCHANGED serviceVars

\* main loop: 0/INSERT inside the ENTITIES section calls parseInsert
CallParseInsert ==
    /\ pc = "main" /\ i < Len(lines)
    /\ ~IsEntitiesHeader(lines, i)
    /\ ~IsEndOfEntities(lines, i, inEntitiesSection)
    /\ ~IsEntityStart(lines, i, inEntitiesSection, "LINE")
    /\ IsEntityStart(lines, i, inEntitiesSection, "INSERT")
    /\ entity' = NewInsert
    /\ j' = i + 2
    /\ pc' = "parseInsert"
    /\ UNCHANGED <<document, fileContent, lines, i, inEntitiesSection, entities, dxf>>
    /\ UNCHANGED <<thrown, now, returned, scr>>
    /\ UNCHANGED uiVars
    /\ UNCHANGED serviceVars

\* Variant of SkipPair that moves the cursor to the next line.
SkipPairToNextLine ==
    /\ pc = "main" /\ i < Len(lines)
    /\ ~IsEntitiesHeader(lines, i)
    /\ ~IsEndOfEntities(lines, i, inEntitiesSection)
    /\ ~IsEntityStart(lines, i, inEntitiesSection, "LINE")
    /\ ~IsEntityStart(lines, i, inEntitiesSection, "INSERT")
    /\ i' = i + 1
    /\ UNCHANGED <<document, fileContent, lines, inEntitiesSection, entities, j, entity, dxf, pc>>
    /\ UNCHANGED <<thrown, now, returned, scr>>
    /\ UNCHANGED uiVars
    /\ UNCHANGED serviceVars

\* main loop: any other pair
SkipPair ==
    /\ pc = "main" /\ i < Len(lines)
    /\ ~IsEntitiesHeader(lines, i)
    /\ ~IsEndOfEntities(lines, i, inEntitiesSection)
    /\ ~IsEntityStart(lines, i, inEntitiesSection, "LINE")
    /\ ~IsEntityStart(lines, i, inEntitiesSection, "INSERT")
    /\ i' = i + 2
    /\ UNCHANGED <<document, fileContent, lines, inEntitiesSection, entities, j, entity, dxf, pc>>
    /\ UNCHANGED <<thrown, now, returned, scr>>
    /\ UNCHANGED uiVars
    /\ UNCHANGED serviceVars

\* parseLine: one iteration of the body loop
ParseLineStep ==
    /\ pc = "parseLine"
    /\ BodyContinues(lines, j)
    /\ entity' = LineField(entity, At(lines, j), At(lines, j + 1))
    /\ j' = j + 2
    /\ UNCHANGED <<document, fileContent, lines, i, inEntitiesSection, entities, dxf, pc>>
    /\ UNCHANGED <<thrown, now, returned, scr>>
    /\ UNCHANGED uiVars
    /\ UNCHANGED serviceVars

\* parseInsert: one iteration of the body loop
ParseInsertStep ==
    /\ pc = "parseInsert"
    /\ BodyContinues(lines, j)
    /\ entity' = InsertField(entity, At(lines, j), At(lines, j + 1))
    /\ j' = j + 2
    /\ UNCHANGED <<document, fileContent, lines, i, inEntitiesSection, entities, dxf, pc>>
    /\ UNCHANGED <<thrown, now, returned, scr>>
    /\ UNCHANGED uiVars
    /\ UNCHANGED serviceVars

\* parseLine / parseInsert return; the main loop pushes the entity and steps on
ReturnEntity ==
    /\ pc \in {"parseLine", "parseInsert"}
    /\ ~BodyContinues(lines, j)
    /\ entities' = Append(entities, entity)
    /\ i' = i + 2
    /\ pc' = "main"
    /\ UNCHANGED <<document, fileContent, lines, inEntitiesSection, j, entity, dxf>>
    /\ UNCHANGED <<thrown, now, returned, scr>>
    /\ UNCHANGED uiVars
    /\ UNCHANGED serviceVars

\* parseBasicDxf returns the document, stamped with the time of the call
ReturnDocument ==
    /\ pc = "main" /\ ~(i < Len(lines))
    /\ pc' = "parsed"
    /\ returned' = Append(returned, CadDocument(entities, now))
    /\ UNCHANGED <<document, fileContent, lines, i, inEntitiesSection, entities, j, entity, dxf>>
    /\ UNCHANGED <<thrown, now, scr>>
    /\ UNCHANGED uiVars
    /\ UNCHANGED serviceVars

\* the caller encodes the decoded document (handleFileUpload: dxfContent)
EncodeParsed ==
    /\ pc = "parsed"
    /\ dxf' = jsonToDxf([entities |-> entities])
    /\ pc' = "done"
    /\ UNCHANGED <<document, fileContent, lines, i, inEntitiesSection, entities, j, entity>>
    /\ UNCHANGED <<thrown, now, returned, scr>>
    /\ UNCHANGED uiVars
    /\ UNCHANGED serviceVars

(***************************************************************************)
(* autocad-llm-sync.vue: the handlers.  An async handler runs up to its    *)
(* next await in one action and leaves a record in `pending`; the action   *)
(* that resumes it takes the record out.  The change event that            *)
(* jsonEditor.setValue raises when a watcher copies jsonContent into the   *)
(* editor re-derives the values just set and is not modelled.              *)
(***************************************************************************)
\* a handler may be started
MayStart == Cardinality(pending) < MaxPending

\* the statements that show the document of a file: parse, set the document
\* and the three views, create and save the metadata
ShowFile(file, via) ==
    LET doc == CadDocument(parseBasicDxf(file.content), now)
    IN  /\ currentDocument' = doc
        /\ jsonContent' = JsonStringify(doc)
        /\ scrContent' = jsonToScr(doc)
        /\ dxfContent' = jsonToDxf(doc)
        /\ fileMetadata' = createFileMetadata(file, now)
        /\ storedMetadata' = createFileMetadata(file, now)
        /\ loadedFrom' = [file |-> file.name, via |-> via]

\* handleFileUpload up to `await file.text()`
HandleFileUpload ==
    /\ MayStart
    /\ \E f \in Files :
          pending' = pending \cup {[op |-> "upload", at |-> "text", file |-> FileOf(disk, f)]}
    /\ UNCHANGED <<currentDocument, jsonContent, scrContent, dxfContent, currentFileHandle,
                   fileMetadata, storedMetadata, disk, loadedFrom>>
    /\ UNCHANGED codecVars
    /\ UNCHANGED serviceVars

\* handleFileUpload after `await file.text()`
UploadRead ==
    /\ \E c \in pending :
          /\ c.op = "upload"
          /\ ShowFile(c.file, "upload")
          /\ pending' = pending \ {c}
    /\ UNCHANGED <<currentFileHandle, disk>>
    /\ UNCHANGED codecVars
    /\ UNCHANGED serviceVars

\* openFileWithHandle up to `await requestFileHandle()`
OpenFileWithHandle ==
    /\ MayStart
    /\ pending' = pending \cup {[op |-> "open", at |-> "picker"]}
    /\ UNCHANGED <<currentDocument, jsonContent, scrContent, dxfContent, currentFileHandle,
                   fileMetadata, storedMetadata, disk, loadedFrom>>
    /\ UNCHANGED codecVars
    /\ UNCHANGED serviceVars

\* openFileWithHandle: the user cancelled the picker
OpenCancelled ==
    /\ \E c \in pending :
          /\ c.op = "open" /\ c.at = "picker"
          /\ pending' = pending \ {c}
    /\ UNCHANGED <<currentDocument, jsonContent, scrContent, dxfContent, currentFileHandle,
                   fileMetadata, storedMetadata, disk, loadedFrom>>
    /\ UNCHANGED codecVars
    /\ UNCHANGED serviceVars

\* openFileWithHandle: the user picked a file; up to `await file.text()`
OpenPicked ==
    /\ \E c \in pending : \E f \in Files :
          /\ c.op = "open" /\ c.at = "picker"
          /\ currentFileHandle' = f
          /\ pending' = (pending \ {c})
                            \cup {[op |-> "open", at |-> "text", file |-> FileOf(disk, f)]}
    /\ UNCHANGED <<currentDocument, jsonContent, scrContent, dxfContent,
                   fileMetadata, storedMetadata, disk, loadedFrom>>
    /\ UNCHANGED codecVars
    /\ UNCHANGED serviceVars

\* openFileWithHandle after `await file.text()`
OpenRead ==
    /\ \E c \in pending :
          /\ c.op = "open" /\ c.at = "text"
          /\ ShowFile(c.file, "handle")
          /\ pending' = pending \ {c}
    /\ UNCHANGED <<currentFileHandle, disk>>
    /\ UNCHANGED codecVars
    /\ UNCHANGED serviceVars

\* saveToDisk up to `await writeFileToHandle(...)`; without a handle it only
\* sets the error message
SaveToDisk ==
    /\ MayStart
    /\ currentFileHandle # NoHandle
    /\ pending' = pending \cup {[op |-> "save", at |-> "write",
                                  handle |-> currentFileHandle, content |-> dxfContent]}
    /\ UNCHANGED <<currentDocument, jsonContent, scrContent, dxfContent, currentFileHandle,
                   fileMetadata, storedMetadata, disk, loadedFrom>>
    /\ UNCHANGED codecVars
    /\ UNCHANGED serviceVars

\* saveToDisk: writeFileToHandle throws 'Write permission denied'
SaveDenied ==
    /\ \E c \in pending :
          /\ c.op = "save" /\ c.at = "write"
          /\ pending' = pending \ {c}
    /\ UNCHANGED <<currentDocument, jsonContent, scrContent, dxfContent, currentFileHandle,
                   fileMetadata, storedMetadata, disk, loadedFrom>>
    /\ UNCHANGED codecVars
    /\ UNCHANGED serviceVars

\* saveToDisk: writeFileToHandle has written; up to `await readFileFromHandle(
\* currentFileHandle.value)`, which throws when the handle is null by now
SaveWritten ==
    /\ \E c \in pending :
          /\ c.op = "save" /\ c.at = "write"
          /\ disk[c.handle].lastModified < MaxModified
          /\ disk' = [disk EXCEPT ![c.handle] =
                          [content |-> c.content, lastModified |-> @.lastModified + 1]]
          /\ pending' = (pending \ {c}) \cup
                IF currentFileHandle = NoHandle THEN {}
                ELSE {[op |-> "save", at |-> "read", handle |-> currentFileHandle]}
    /\ UNCHANGED <<currentDocument, jsonContent, scrContent, dxfContent, currentFileHandle,
                   fileMetadata, storedMetadata, loadedFrom>>
    /\ UNCHANGED codecVars
    /\ UNCHANGED serviceVars

\* saveToDisk after `await readFileFromHandle(...)`: the metadata of the file
\* written, then updateLastSyncTime
SaveRead ==
    /\ \E c \in pending :
          /\ c.op = "save" /\ c.at = "read"
          /\ fileMetadata' = createFileMetadata(FileOf(disk, c.handle), now)
          /\ storedMetadata' = createFileMetadata(FileOf(disk, c.handle), now)
          /\ pending' = pending \ {c}
    /\ UNCHANGED <<currentDocument, jsonContent, scrContent, dxfContent, currentFileHandle,
                   disk, loadedFrom>>
    /\ UNCHANGED codecVars
    /\ UNCHANGED serviceVars

\* reloadFromDisk up to `await readFileFromHandle(...)`; without a handle it
\* only sets the error message
ReloadFromDisk ==
    /\ MayStart
    /\ currentFileHandle # NoHandle
    /\ pending' = pending \cup {[op |-> "reload", at |-> "read", handle |-> currentFileHandle]}
    /\ UNCHANGED <<currentDocument, jsonContent, scrContent, dxfContent, currentFileHandle,
                   fileMetadata, storedMetadata, disk, loadedFrom>>
    /\ UNCHANGED codecVars
    /\ UNCHANGED serviceVars

\* reloadFromDisk: the file is not newer than the metadata: up to date
ReloadUpToDate ==
    /\ \E c \in pending :
          /\ c.op = "reload" /\ c.at = "read"
          /\ fileMetadata # JsNull
          /\ disk[c.handle].lastModified <= fileMetadata.lastModified
          /\ pending' = pending \ {c}
    /\ UNCHANGED <<currentDocument, jsonContent, scrContent, dxfContent, currentFileHandle,
                   fileMetadata, storedMetadata, disk, loadedFrom>>
    /\ UNCHANGED codecVars
    /\ UNCHANGED serviceVars

\* reloadFromDisk: the file is newer; up to `await file.text()`
ReloadChanged ==
    /\ \E c \in pending :
          /\ c.op = "reload" /\ c.at = "read"
          /\ ~(fileMetadata # JsNull
                /\ disk[c.handle].lastModified <= fileMetadata.lastModified)
          /\ pending' = (pending \ {c})
                            \cup {[op |-> "reload", at |-> "text", file |-> FileOf(disk, c.handle)]}
    /\ UNCHANGED <<currentDocument, jsonContent, scrContent, dxfContent, currentFileHandle,
                   fileMetadata, storedMetadata, disk, loadedFrom>>
    /\ UNCHANGED codecVars
    /\ UNCHANGED serviceVars

\* reloadFromDisk after `await file.text()`
ReloadRead ==
    /\ \E c \in pending :
          /\ c.op = "reload" /\ c.at = "text"
          /\ ShowFile(c.file, "handle")
          /\ pending' = pending \ {c}
    /\ UNCHANGED <<currentFileHandle, disk>>
    /\ UNCHANGED codecVars
    /\ UNCHANGED serviceVars

\* clearAll
ClearAll ==
    /\ currentDocument' = JsNull
    /\ jsonContent' = EmptyJson
    /\ scrContent' = <<>>
    /\ dxfContent' = EmptyStr
    /\ currentFileHandle' = NoHandle
    /\ fileMetadata' = JsNull
    /\ storedMetadata' = JsNull
    /\ loadedFrom' = NoSource
    /\ UNCHANGED <<disk, pending>>
    /\ UNCHANGED codecVars
    /\ UNCHANGED serviceVars

\* the change listener of the JSON editor, on the text the user leaves
JsonEdited ==
    /\ \E value \in EditedTexts :
          /\ jsonContent' = value
          /\ IF JsonParseThrows(value)
             THEN UNCHANGED <<currentDocument, scrContent, dxfContent>>
             ELSE LET doc == JsonParse(value)
                  IN  /\ currentDocument' = doc
                      /\ IF jsonToScrThrows(doc) \/ jsonToDxfThrows(doc)
                         THEN UNCHANGED <<scrContent, dxfContent>>
                         ELSE /\ scrContent' = jsonToScr(doc)
                              /\ dxfContent' = jsonToDxf(doc)
    /\ UNCHANGED <<currentFileHandle, fileMetadata, storedMetadata, disk, pending, loadedFrom>>
    /\ UNCHANGED codecVars
    /\ UNCHANGED serviceVars

\* another program (the CAD application) saves a file
ExternalEdit ==
    /\ \E f \in Files : \E text \in ExternalTexts :
          /\ disk[f].lastModified < MaxModified
          /\ disk' = [disk EXCEPT ![f] =
                          [content |-> text, lastModified |-> @.lastModified + 1]]
    /\ UNCHANGED <<currentDocument, jsonContent, scrContent, dxfContent, currentFileHandle,
                   fileMetadata, storedMetadata, pending, loadedFrom>>
    /\ UNCHANGED codecVars
    /\ UNCHANGED serviceVars

NextView ==
    \/ HandleFileUpload
    \/ UploadRead
    \/ OpenFileWithHandle
    \/ OpenCancelled
    \/ OpenPicked
    \/ OpenRead
    \/ SaveToDisk
    \/ SaveDenied
    \/ SaveWritten
    \/ SaveRead
    \/ ReloadFromDisk
    \/ ReloadUpToDate
    \/ ReloadChanged
    \/ ReloadRead
    \/ ClearAll
    \/ JsonEdited
    \/ ExternalEdit

\* the component under user actions
SpecView == InitView /\ [][NextView]_vars

(***************************************************************************)
(* file-system.service.ts: writeFileToHandle(handle, content).  Each await *)
(* of the call is one action; the browser decides what a permission        *)
(* request gives, and createWritable and write may reject.  A writable     *)
(* holds what was written to it; the file takes it when the writable is    *)
(* closed.                                                                 *)
(***************************************************************************)
\* the states of a permission
PermissionStates == {"granted", "denied", "prompt"}

\* the contents a caller writes
WriteContents == { ScenarioAText, ScenarioBText, EmptyStr }

\* new Error('Write permission denied')
PermissionDenied == [name |-> "Error", message |-> "Write permission denied"]

\* the rejection of createWritable() or write()
StreamFailed == [name |-> "DOMException", message |-> "The request is not allowed"]

\* a call of writeFileToHandle is about to start
InitWrite ==
    /\ InitCodec /\ ViewAtStart(JsNull) /\ ResizeAtRest
    /\ document = NoDocument
    /\ fileContent = EmptyStr
    /\ pc = "service"
    /\ handle \in Files
    /\ content \in WriteContents
    /\ permissionState \in PermissionStates
    /\ permission = Undefined
    /\ newPermission = Undefined
    /\ permissionRequests = 0
    /\ writable = NoWritable
    /\ writeError = NoError
    /\ wpc = "query"

\* const permission = await handle.queryPermission({ mode: 'readwrite' })
QueryPermission ==
    /\ wpc = "query"
    /\ permission' = permissionState
    /\ wpc' = IF permissionState # "granted" THEN "request" ELSE "create"
    /\ UNCHANGED <<handle, content, permissionState, newPermission, permissionRequests,
                   writable, writeError>>
    /\ UNCHANGED <<codecVars, uiVars, resizeVars>>

\* Variant of RequestPermission that goes on to createWritable whatever the
\* request gave.
RequestPermissionUnchecked ==
    /\ wpc = "request"
    /\ \E answer \in PermissionStates :
          /\ newPermission' = answer
          /\ permissionState' = answer
    /\ permissionRequests' = permissionRequests + 1
    /\ wpc' = "create"
    /\ UNCHANGED <<handle, content, permission, writable, writeError>>
    /\ UNCHANGED <<codecVars, uiVars, resizeVars>>

\* const newPermission = await handle.requestPermission({ mode: 'readwrite' }),
\* and the throw when it is not 'granted'
RequestPermission ==
    /\ wpc = "request"
    /\ \E answer \in PermissionStates :
          /\ newPermission' = answer
          /\ permissionState' = answer
          /\ IF answer # "granted"
             THEN writeError' = PermissionDenied /\ wpc' = "thrown"
             ELSE writeError' = writeError /\ wpc' = "create"
    /\ permissionRequests' = permissionRequests + 1
    /\ UNCHANGED <<handle, content, permission, writable>>
    /\ UNCHANGED <<codecVars, uiVars, resizeVars>>

\* const writable = await handle.createWritable()
CreateWritable ==
    /\ wpc = "create"
    /\ writable' = [state |-> "open", data |-> EmptyStr]
    /\ wpc' = "write"
    /\ UNCHANGED <<handle, content, permissionState, permission, newPermission,
                   permissionRequests, writeError>>
    /\ UNCHANGED <<codecVars, uiVars, resizeVars>>

\* handle.createWritable() rejects
CreateWritableRejects ==
    /\ wpc = "create"
    /\ writeError' = StreamFailed
    /\ wpc' = "thrown"
    /\ UNCHANGED <<handle, content, permissionState, permission, newPermission,
                   permissionRequests, writable>>
    /\ UNCHANGED <<codecVars, uiVars, resizeVars>>

\* await writable.write(content), in either branch of the typeof test
WriteContent ==
    /\ wpc = "write"
    /\ writable' = [writable EXCEPT !.data = content]
    /\ wpc' = "close"
    /\ UNCHANGED <<handle, content, permissionState, permission, newPermission,
                   permissionRequests, writeError>>
    /\ UNCHANGED <<codecVars, uiVars, resizeVars>>

\* writable.write(content) rejects: the call rejects with the writable open
WriteRejects ==
    /\ wpc = "write"
    /\ writeError' = StreamFailed
    /\ wpc' = "thrown"
    /\ UNCHANGED <<handle, content, permissionState, permission, newPermission,
                   permissionRequests, writable>>
    /\ UNCHANGED <<codecVars, uiVars, resizeVars>>

\* await writable.close(): the file takes the content of the writable
CloseWritable ==
    /\ wpc = "close"
    /\ writable' = [writable EXCEPT !.state = "closed"]
    /\ disk' = [disk EXCEPT ![handle] =
                    [content |-> writable.data, lastModified |-> @.lastModified + 1]]
    /\ wpc' = "returned"
    /\ UNCHANGED <<handle, content, permissionState, permission, newPermission,
                   permissionRequests, writeError>>
    /\ UNCHANGED <<codecVars, viewVars, resizeVars>>

NextWrite ==
    \/ QueryPermission
    \/ RequestPermission
    \/ CreateWritable
    \/ CreateWritableRejects
    \/ WriteContent
    \/ WriteRejects
    \/ CloseWritable

\* one call of writeFileToHandle
SpecWrite == InitWrite /\ [][NextWrite]_vars

(***************************************************************************)
(* icon-generator-service.ts: resizeImage(file, sizes).  A blob is the     *)
(* image rendered at one size.  The browser runs the toBlob callbacks as   *)
(* the encodings finish, in any order, and hands a callback null when an   *)
(* encoding fails.                                                         *)
(***************************************************************************)
\* the sizes icon-generator.vue asks for
IconSizes == {16, 24, 32, 48, 256}

RECURSIVE SizeLists(_)
SizeLists(n) ==
    IF n = 0 THEN { <<>> }
    ELSE SizeLists(n - 1) \cup { Append(l, size) : l \in SizeLists(n - 1), size \in IconSizes }

\* the image drawn on a canvas of size x size, encoded
BlobOf(size) == [width |-> size, height |-> size]

\* resizeImage(file, sizes) has been called; the image is loading
InitResize ==
    /\ InitCodec /\ ViewAtStart(JsNull) /\ WriteAtRest
    /\ document = NoDocument
    /\ fileContent = EmptyStr
    /\ pc = "service"
    /\ sizes \in SizeLists(MaxSizes)
    /\ img = "loading"
    /\ promises = {}
    /\ blobs = <<>>
    /\ resolved = Unsettled

\* img.onload up to Promise.all: one canvas and one toBlob call per size
ImgOnLoad ==
    /\ img = "loading"
    /\ img' = "loaded"
    /\ blobs' = <<>>
    /\ promises' = 1..Len(sizes)
    /\ UNCHANGED <<sizes, resolved>>
    /\ UNCHANGED <<codecVars, uiVars, writeVars>>

\* img.onerror
ImgOnError ==
    /\ img = "loading"
    /\ img' = "error"
    /\ resolved' = [state |-> "rejected", value |-> <<>>]
    /\ UNCHANGED <<sizes, promises, blobs>>
    /\ UNCHANGED <<codecVars, uiVars, writeVars>>

\* the callback of one canvas.toBlob call runs, with the blob or with null
ToBlobCallback ==
    /\ img = "loaded"
    /\ \E k \in promises : \E isNull \in BOOLEAN :
          /\ blobs' = IF isNull THEN blobs ELSE Append(blobs, BlobOf(sizes[k]))
          /\ promises' = promises \ {k}
    /\ UNCHANGED <<sizes, img, resolved>>
    /\ UNCHANGED <<codecVars, uiVars, writeVars>>

\* Promise.all(promises).then(() => resolve(blobs))
PromiseAllThen ==
    /\ img = "loaded" /\ promises = {}
    /\ resolved = Unsettled
    /\ resolved' = [state |-> "fulfilled", value |-> blobs]
    /\ UNCHANGED <<sizes, img, promises, blobs>>
    /\ UNCHANGED <<codecVars, uiVars, writeVars>>

NextResize ==
    \/ ImgOnLoad
    \/ ImgOnError
    \/ ToBlobCallback
    \/ PromiseAllThen

\* one call of resizeImage
SpecResize == InitResize /\ [][NextResize]_vars

Decode ==
    \/ CallParseBasicDxf
    \/ EnterEntities
    \/ LeaveEntities
    \/ CallParseLine
    \/ CallParseInsert
    \/ SkipPair
    \/ ParseLineStep
    \/ ParseInsertStep
    \/ ReturnEntity
    \/ ReturnDocument
    \/ EncodeParsed

Next == Decode

NextDoc == EncodeDocument \/ Decode

\* decoding of interchange texts
Spec == InitText /\ [][Next]_vars

\* decoding of interchange texts, run to completion: the decoder is
\* synchronous code, so a step that can be taken is taken
SpecRun == InitRun /\ [][Next]_vars /\ WF_vars(Next)

\* encoding of documents, followed by the decoding of the output
SpecDoc == InitDoc /\ [][NextDoc]_vars

NextScript == EncodeScript

\* script encoding of documents
SpecScript == InitDoc /\ [][NextScript]_vars

NextSchema == EncodeDocument \/ EncodeThrows

\* jsonToDxf on values that may not be well-formed documents
SpecSchema == InitSchema /\ [][NextSchema]_vars

NextRepeated == Decode \/ Tick \/ CallAgain

\* repeated decoding of one text while time passes
SpecRepeated == InitRepeated /\ [][NextRepeated]_vars

(***************************************************************************)
(* Vocabulary of the properties.                                           *)
(***************************************************************************)
\* The decoder built from steps and the decoder as a function agree.
StepwiseIsFunctional ==
    pc \in {"parsed", "done"} => entities = parseBasicDxf(fileContent)

\* the cursor positions of group codes: the even line indices
CodePositions(ls) == { k \in 0..(Len(ls) - 1) : k % 2 = 0 }

\* a record of kind `kind` starts at code position p
RecordAt(ls, p, kind) == At(ls, p) = "0" /\ At(ls, p + 1) = kind

\* the first code position after p that holds code 0, or the end of the lines
RecordEnd(ls, p) ==
    LET ends == { q \in (p + 2)..(Len(ls) + 1) :
                    (q - p) % 2 = 0 /\ (q >= Len(ls) \/ At(ls, q) = "0") }
    IN  CHOOSE q \in ends : \A r \in ends : q <= r

\* the code positions of the body of the record that starts at p
BodyCodes(ls, p) ==
    { k \in (p + 2)..(RecordEnd(ls, p) - 1) : (k - p) % 2 = 0 /\ k < Len(ls) }

HasCode(ls, p, c) == \E k \in BodyCodes(ls, p) : At(ls, k) = c

\* the value of the last pair with code c in the body of the record at p
ValueOf(ls, p, c) ==
    LET at == { k \in BodyCodes(ls, p) : At(ls, k) = c }
        last == CHOOSE k \in at : \A r \in at : r <= k
    IN  At(ls, last + 1)

StrCode(ls, p, c, default) == IF HasCode(ls, p, c) THEN ValueOf(ls, p, c) ELSE default

NumCode(ls, p, c, default) ==
    IF HasCode(ls, p, c) THEN ParseFloat(ValueOf(ls, p, c)) ELSE default

\* every line of the record's body is half of a complete pair (the empty
\* segment after a final line break apart)
WellPaired(ls, p) == RecordEnd(ls, p) <= Len(ls) \/ ls[Len(ls)] = ""

\* the group-code table, row LINE
TableLine(ls, p) ==
    [type |-> "LINE",
     layer |-> StrCode(ls, p, "8", "0"),
     start |-> <<NumCode(ls, p, "10", 0), NumCode(ls, p, "20", 0), NumCode(ls, p, "30", 0)>>,
     end |-> <<NumCode(ls, p, "11", 0), NumCode(ls, p, "21", 0), NumCode(ls, p, "31", 0)>>]

\* the group-code table, row INSERT
TableInsert(ls, p) ==
    [type |-> "INSERT",
     layer |-> StrCode(ls, p, "8", "0"),
     block |-> StrCode(ls, p, "2", ""),
     insertion_point |->
        <<NumCode(ls, p, "10", 0), NumCode(ls, p, "20", 0), NumCode(ls, p, "30", 0)>>,
     scale |-> <<NumCode(ls, p, "41", 1), NumCode(ls, p, "42", 1), NumCode(ls, p, "43", 1)>>,
     rotation |-> NumCode(ls, p, "50", 0)]

\* the group-code table, row CIRCLE
TableCircle(ls, p) ==
    [type |-> "CIRCLE",
     layer |-> StrCode(ls, p, "8", "0"),
     center |-> [x |-> NumCode(ls, p, "10", 0), y |-> NumCode(ls, p, "20", 0),
                 z |-> NumCode(ls, p, "30", 0)],
     radius |-> NumCode(ls, p, "40", 1)]

\* The section state machine of the design: the state in which the pair at
\* code position k is consumed.
SectionNamed(name) ==
    CASE name = "ENTITIES" -> "Entities"
      [] name = "HEADER" -> "Header"
      [] name = "TABLES" -> "Tables"
      [] name = "BLOCKS" -> "Blocks"
      [] OTHER -> "OtherNamedSection"

RECURSIVE MachineState(_, _)
MachineState(ls, k) ==
    IF k < 2 THEN "Outside"
    ELSE IF k >= 4 /\ At(ls, k - 4) = "0" /\ At(ls, k - 3) = "SECTION" /\ At(ls, k - 2) = "2"
         THEN SectionNamed(At(ls, k - 1))
    ELSE IF At(ls, k - 2) = "0" /\ At(ls, k - 1) = "ENDSEC"
              /\ MachineState(ls, k - 2) # "Outside"
         THEN "Outside"
    ELSE MachineState(ls, k - 2)

InEntities(ls, p) == MachineState(ls, p) = "Entities"

Supported(e) == e.type \in {"LINE", "INSERT", "CIRCLE"}

AllSupported(doc) == \A k \in 1..Len(doc.entities) : Supported(doc.entities[k])

\* the documented field defaults
DefaultLayer(l) == IF l = "" THEN "0" ELSE l

Normalized(e) ==
    CASE e.type = "LINE" ->
            [type |-> "LINE", layer |-> DefaultLayer(e.layer),
             start |-> Field(e, "start", <<0, 0, 0>>),
             end |-> Field(e, "end", <<0, 0, 0>>)]
      [] e.type = "INSERT" ->
            [type |-> "INSERT", layer |-> DefaultLayer(e.layer),
             block |-> Field(e, "block", ""),
             insertion_point |-> Field(e, "insertion_point", <<0, 0, 0>>),
             scale |-> Field(e, "scale", <<1, 1, 1>>),
             rotation |-> Field(e, "rotation", 0)]
      [] e.type = "CIRCLE" ->
            [type |-> "CIRCLE", layer |-> DefaultLayer(e.layer),
             center |-> Field(e, "center", [x |-> 0, y |-> 0, z |-> 0]),
             radius |-> Field(e, "radius", 1)]
      [] OTHER -> e

SameTriple(a, b) == \A k \in 1..3 : NumEq(a[k], b[k])

\* equality of two normalized entities, numbers compared as numbers
SameEntity(a, b) ==
    /\ a.type = b.type
    /\ a.layer = b.layer
    /\ a.type = "LINE" => SameTriple(a.start, b.start) /\ SameTriple(a.end, b.end)
    /\ a.type = "INSERT" =>
          /\ a.block = b.block
          /\ SameTriple(a.insertion_point, b.insertion_point)
          /\ SameTriple(a.scale, b.scale)
          /\ NumEq(a.rotation, b.rotation)
    /\ a.type = "CIRCLE" =>
          /\ NumEq(a.center.x, b.center.x) /\ NumEq(a.center.y, b.center.y)
          /\ NumEq(a.center.z, b.center.z)
          /\ NumEq(a.radius, b.radius)

(***************************************************************************)
(* Properties.                                                             *)
(***************************************************************************)
\* C1.  Round trip: for a document of LINE, INSERT and CIRCLE entities, the
\* entities decoded from jsonToDxf(document) are the entities of the
\* document: same number and order, same kind and layer, every field equal
\* after the documented field defaults are filled in.
C1_RoundTrip ==
    (pc = "parsed" /\ AllSupported(document)) =>
        /\ Len(entities) = Len(document.entities)
        /\ \A k \in 1..Len(entities) :
              SameEntity(entities[k], Normalized(document.entities[k]))

\* C2.  Idempotence: for a document of LINE, INSERT and CIRCLE entities,
\* encoding the decoding of jsonToDxf(document) gives jsonToDxf(document).
C2_Idempotence ==
    (pc = "done" /\ AllSupported(document)) => dxf = fileContent

\* the code positions of the records of an unimplemented entity kind that
\* lie in the ENTITIES section
UnknownRecords(ls) ==
    { p \in CodePositions(ls) :
        /\ At(ls, p) = "0"
        /\ At(ls, p + 1) \notin {"LINE", "INSERT", "SECTION", "ENDSEC", "EOF", Undefined}
        /\ InEntities(ls, p) }

\* the lines without the record that starts at p
WithoutRecord(ls, p) ==
    SubSeq(ls, 1, p) \o SubSeq(ls, RecordEnd(ls, p) + 1, Len(ls))

\* C3.  Robustness: decoding never gets stuck or fails on a text whose
\* ENTITIES section holds a record of an unimplemented kind, and the entities
\* decoded are exactly those decoded from the same text without that record.
C3_Robustness ==
    /\ pc \in {"parse", "main", "parseLine", "parseInsert"} => ENABLED Decode
    /\ pc = "parsed" =>
          \A p \in UnknownRecords(lines) : entities = parseLines(WithoutRecord(lines, p))

\* C3 witness: a decoded text with an unknown record in the ENTITIES section
\* that is followed there by a LINE or INSERT record, which was decoded.
C3_Witness ==
    /\ pc = "parsed"
    /\ \E p \in UnknownRecords(lines) : \E q \in CodePositions(lines) :
          /\ q > p /\ InEntities(lines, q)
          /\ RecordAt(lines, q, "LINE") \/ RecordAt(lines, q, "INSERT")
          /\ Len(entities) > 0
          /\ entities[Len(entities)] \in {parseLine(lines, q), parseInsert(lines, q)}

\* the body loop of parseLine / parseInsert has ended and the entity under
\* construction is the one returned for the record at i
Returning(kind) == pc = kind /\ ~BodyContinues(lines, j)

C6_InsertDecoding ==
    (Returning("parseInsert") /\ WellPaired(lines, i)) => entity = TableInsert(lines, i)

\* the known-kind records of the ENTITIES section up to code position p
RecordsUpTo(ls, p) ==
    { q \in CodePositions(ls) :
        /\ q <= p /\ InEntities(ls, q)
        /\ \E kind \in {"LINE", "INSERT", "CIRCLE"} : RecordAt(ls, q, kind) }

\* C7.  CIRCLE decoding: every CIRCLE record of the ENTITIES section decodes
\* to one CIRCLE entity with layer, center and radius from codes 8, 10/20/30
\* and 40, at the record's position in the entity order.
C7_CircleDecoding ==
    pc = "parsed" =>
        \A p \in CodePositions(lines) :
            (RecordAt(lines, p, "CIRCLE") /\ InEntities(lines, p) /\ WellPaired(lines, p)) =>
                LET rank == Cardinality(RecordsUpTo(lines, p))
                IN  /\ rank <= Len(entities)
                    /\ entities[rank] = TableCircle(lines, p)

\* C8.  Dangling final line: a text with an unpaired final line decodes to
\* the entities of the same text without that line.
C8_DanglingLine ==
    (pc = "parsed" /\ Len(lines) % 2 = 1 /\ lines[Len(lines)] # "") =>
        entities = parseLines(SubSeq(lines, 1, Len(lines) - 1))

\* C9.  Section tracking: at every pair the main loop looks at, the section
\* flag is set exactly when the section state machine is in Entities.
C9_SectionRefinement ==
    (pc = "main" /\ i < Len(lines)) => (inEntitiesSection <=> InEntities(lines, i))

\* the names of the LAYER records among the first n pairs of a text
RECURSIVE LayerNames(_, _)
LayerNames(text, n) ==
    IF n = 0 THEN <<>>
    ELSE IF text[2 * n - 1] = "0" /\ text[2 * n] = "LAYER" /\ text[2 * n + 1] = "2"
         THEN Append(LayerNames(text, n - 1), text[2 * n + 2])
         ELSE LayerNames(text, n - 1)

LayerTable(text) == LayerNames(text, (Len(text) - 1) \div 2)

\* the layers of a document, the default layer included
DocLayers(doc) ==
    {"0"} \cup { DefaultLayer(doc.entities[k].layer) : k \in 1..Len(doc.entities) }

\* the index of the first entity on layer l
FirstSeen(doc, l) ==
    LET on == { k \in 1..Len(doc.entities) : DefaultLayer(doc.entities[k].layer) = l }
    IN  CHOOSE k \in on : \A r \in on : k <= r

\* C10.  Layer table: the TABLES block of jsonToDxf(document) has exactly one
\* LAYER record per distinct layer of the document plus the default layer
\* "0"; "0" is the first record; the other layers follow in order of first
\* appearance; no layer is listed twice.
C10_LayerTable ==
    pc = "parse" =>
        LET names == LayerTable(fileContent)
        IN  /\ names[1] = "0"
            /\ { names[k] : k \in 1..Len(names) } = DocLayers(document)
            /\ Len(names) = Cardinality(DocLayers(document))
            /\ \A a, b \in 2..Len(names) :
                  a < b => FirstSeen(document, names[a]) < FirstSeen(document, names[b])
            /\ document.entities = <<>> => names = <<"0">>

\* C10 witness (scenario D): entities on layers "A", "A" and the default
\* layer give the records "0" then "A".
C10_Witness ==
    /\ pc = "parse"
    /\ Len(document.entities) = 3
    /\ document.entities[1].layer = "A" /\ document.entities[2].layer = "A"
    /\ DefaultLayer(document.entities[3].layer) = "0"
    /\ LayerTable(fileContent) = <<"0", "A">>


\* the entity names of the records in the ENTITIES section among the first
\* n pairs of the lines ls, in order
RECURSIVE RecordKindsUpTo(_, _)
RecordKindsUpTo(ls, n) ==
    IF n = 0 THEN <<>>
    ELSE LET p == 2 * (n - 1)
         IN  IF At(ls, p) = "0" /\ InEntities(ls, p) /\ At(ls, p + 1) # "ENDSEC"
             THEN Append(RecordKindsUpTo(ls, n - 1), At(ls, p + 1))
             ELSE RecordKindsUpTo(ls, n - 1)

RecordKinds(text) == RecordKindsUpTo(SplitTrim(text), Len(text) \div 2)

\* the kinds of the supported entities of a document, in document order
RECURSIVE SupportedKinds(_, _)
SupportedKinds(ents, n) ==
    IF n = 0 THEN <<>>
    ELSE IF Supported(ents[n])
         THEN Append(SupportedKinds(ents, n - 1), ents[n].type)
         ELSE SupportedKinds(ents, n - 1)

\* the entities of a document that jsonToDxf skips
Skipped(doc) == { k \in 1..Len(doc.entities) : ~Supported(doc.entities[k]) }

\* C11.  Unsupported kinds on encode: jsonToDxf does not fail on a document
\* with entities of an unsupported kind, its output has a record for every
\* supported entity and none for the others, and it returns to the caller a
\* warning list with one entry per skipped entity.
C11_UnsupportedKinds ==
    /\ pc = "encode" => ~jsonToDxfThrows(document)
    /\ pc = "parse" =>
          /\ RecordKinds(fileContent)
                = SupportedKinds(document.entities, Len(document.entities))
          /\ Len(jsonToDxfWarnings(document)) = Cardinality(Skipped(document))

\* C11, the part the encoder keeps: no failure, a record for every supported
\* entity and none for the others.
C11_SkippedSilently ==
    /\ pc = "encode" => ~jsonToDxfThrows(document)
    /\ pc = "parse" =>
          RecordKinds(fileContent)
              = SupportedKinds(document.entities, Len(document.entities))

\* a value that is not a well-formed document: entities is missing or not a
\* list, or some entity lacks its type tag
Malformed(doc) ==
    IF "entities" \notin DOMAIN doc \/ "entitiesIs" \in DOMAIN doc
    THEN TRUE
    ELSE \E k \in 1..Len(doc.entities) : "type" \notin DOMAIN doc.entities[k]

\* C12.  Schema errors on encode: jsonToDxf given a value that is not a
\* well-formed document aborts with an error that identifies the offending
\* entity index and field, and returns no text.
C12_SchemaErrors ==
    (pc # "encode" /\ Malformed(document)) =>
        /\ pc = "threw"
        /\ fileContent = EmptyStr
        /\ {"index", "field"} \subseteq DOMAIN thrown

\* C17.  Purity: two invocations of parseDxfToJson on the same text return
\* equal documents, entity list and metadata, whatever the time of the calls.
C17_Purity ==
    \A a, b \in 1..Len(returned) :
        /\ returned[a].entities = returned[b].entities
        /\ returned[a].metadata = returned[b].metadata

\* C17, the part that holds: the entity lists are equal.
C17_SameEntities ==
    \A a, b \in 1..Len(returned) : returned[a].entities = returned[b].entities

\* the numbers of an entity the decoder returns
Numbers(e) ==
    IF e.type = "LINE"
    THEN { e.start[k] : k \in 1..3 } \cup { e.end[k] : k \in 1..3 }
    ELSE { e.insertion_point[k] : k \in 1..3 } \cup { e.scale[k] : k \in 1..3 }
            \cup { e.rotation }

\* the value line of code c in the body of the record at p is not a number
Unparseable(ls, p, c) == HasCode(ls, p, c) /\ ParseFloat(ValueOf(ls, p, c)) = NaN

\* C13.  Finite coordinates: every numeric field of every entity the decoder
\* returns is a finite number; a numeric group code whose value line is not a
\* number leaves the field at its default (0 for coordinates, 1 for scale).
C13_FiniteCoordinates ==
    /\ pc = "parsed" =>
          \A k \in 1..Len(entities) : NaN \notin Numbers(entities[k])
    /\ Returning("parseLine") =>
          /\ \A k \in 1..3 :
                Unparseable(lines, i, <<"10", "20", "30">>[k]) => entity.start[k] = 0
          /\ \A k \in 1..3 :
                Unparseable(lines, i, <<"11", "21", "31">>[k]) => entity.end[k] = 0
    /\ Returning("parseInsert") =>
          /\ \A k \in 1..3 :
                Unparseable(lines, i, <<"10", "20", "30">>[k]) =>
                    entity.insertion_point[k] = 0
          /\ \A k \in 1..3 :
                Unparseable(lines, i, <<"41", "42", "43">>[k]) => entity.scale[k] = 1

\* C14.  Non-empty layer: every entity the decoder returns has a layer that
\* is a non-empty string, also when the value line of code 8 is empty or
\* code 8 is the last line of the text.
C14_NonEmptyLayer ==
    pc = "parsed" =>
        \A k \in 1..Len(entities) : entities[k].layer \notin {"", Undefined}

\* the records of the ENTITIES section up to code position p, of any kind
AllRecordsUpTo(ls, p) ==
    { q \in CodePositions(ls) :
        /\ q <= p /\ InEntities(ls, q) /\ At(ls, q) = "0"
        /\ At(ls, q + 1) \notin {"SECTION", "ENDSEC", "EOF", Undefined} }

\* C15.  UNKNOWN entities: every record of the ENTITIES section whose entity
\* name is not in the table (LINE, INSERT, CIRCLE) decodes to one entity of
\* type UNKNOWN with the record's layer (code 8, default "0"), at the
\* record's position in the entity order.
C15_UnknownEntities ==
    pc = "parsed" =>
        \A p \in AllRecordsUpTo(lines, Len(lines)) :
            (At(lines, p + 1) \notin {"LINE", "INSERT", "CIRCLE"} /\ WellPaired(lines, p)) =>
                LET rank == Cardinality(AllRecordsUpTo(lines, p))
                IN  /\ rank <= Len(entities)
                    /\ entities[rank].type = "UNKNOWN"
                    /\ entities[rank].layer = StrCode(lines, p, "8", "0")

\* the names of the sections opened among the first n pairs of the lines ls
RECURSIVE SectionNamesUpTo(_, _)
SectionNamesUpTo(ls, n) ==
    IF n = 0 THEN <<>>
    ELSE LET p == 2 * (n - 1)
         IN  IF RecordAt(ls, p, "SECTION") /\ At(ls, p + 2) = "2"
             THEN Append(SectionNamesUpTo(ls, n - 1), At(ls, p + 3))
             ELSE SectionNamesUpTo(ls, n - 1)

\* the layers (code 8) of the records in the ENTITIES section among the first
\* n pairs of the lines ls, in order
RECURSIVE RecordLayersUpTo(_, _)
RecordLayersUpTo(ls, n) ==
    IF n = 0 THEN <<>>
    ELSE LET p == 2 * (n - 1)
         IN  IF At(ls, p) = "0" /\ InEntities(ls, p) /\ At(ls, p + 1) # "ENDSEC"
             THEN Append(RecordLayersUpTo(ls, n - 1), StrCode(ls, p, "8", Undefined))
             ELSE RecordLayersUpTo(ls, n - 1)

\* the layers of the supported entities of a document, in document order
RECURSIVE SupportedLayers(_, _)
SupportedLayers(ents, n) ==
    IF n = 0 THEN <<>>
    ELSE IF Supported(ents[n])
         THEN Append(SupportedLayers(ents, n - 1), DefaultLayer(ents[n].layer))
         ELSE SupportedLayers(ents, n - 1)

\* the code positions of the pairs 0/name
PairsNamed(ls, name) == { p \in CodePositions(ls) : RecordAt(ls, p, name) }

\* C20.  Encoder output structure: jsonToDxf(document) is a HEADER section,
\* a TABLES section and an ENTITIES section, in this order and each opened by
\* 0/SECTION, 2/NAME and closed by 0/ENDSEC, then the final pair 0/EOF; the
\* ENTITIES section holds one record per LINE/INSERT/CIRCLE entity, in
\* document order.
C20_OutputStructure ==
    pc = "parse" =>
        LET ls == SubSeq(fileContent, 1, Len(fileContent) - 1)
            n == Len(ls)
        IN  /\ fileContent[Len(fileContent)] = ""
            /\ n % 2 = 0
            /\ SectionNamesUpTo(ls, n \div 2) = <<"HEADER", "TABLES", "ENTITIES">>
            /\ PairsNamed(ls, "SECTION") = { p \in CodePositions(ls) : At(ls, p + 1) = "SECTION" }
            /\ Cardinality(PairsNamed(ls, "SECTION")) = 3
            /\ Cardinality(PairsNamed(ls, "ENDSEC")) = 3
            /\ \A p \in PairsNamed(ls, "SECTION") : MachineState(ls, p) = "Outside"
            /\ \A p \in PairsNamed(ls, "ENDSEC") : MachineState(ls, p) # "Outside"
            /\ PairsNamed(ls, "EOF") = {n - 2}
            /\ MachineState(ls, n - 2) = "Outside"
            /\ RecordKindsUpTo(ls, n \div 2)
                  = SupportedKinds(document.entities, Len(document.entities))
            /\ RecordLayersUpTo(ls, n \div 2)
                  = SupportedLayers(document.entities, Len(document.entities))

\* C20 witness: a document with a LINE, an entity of an unsupported kind and
\* a CIRCLE has been encoded; the ENTITIES section holds the LINE record and
\* then the CIRCLE record.
C20_Witness ==
    /\ pc = "parse"
    /\ Len(document.entities) = 3
    /\ document.entities[1].type = "LINE"
    /\ document.entities[2].type = "TEXT"
    /\ document.entities[3].type = "CIRCLE"
    /\ RecordKinds(fileContent) = <<"LINE", "CIRCLE">>
    /\ fileContent[Len(fileContent) - 1] = "EOF"

\* the supported entities of a document, in document order
RECURSIVE SupportedEntities(_, _)
SupportedEntities(ents, n) ==
    IF n = 0 THEN <<>>
    ELSE IF Supported(ents[n])
         THEN Append(SupportedEntities(ents, n - 1), ents[n])
         ELSE SupportedEntities(ents, n - 1)

\* the document of scenario B
ScenarioB ==
    [entities |-> <<[type |-> "INSERT", layer |-> "FURN", block |-> "CHAIR",
                     insertion_point |-> <<1, 2, 0>>, scale |-> <<1, 1, 1>>,
                     rotation |-> 45]>>]

C18_SaveToOriginal ==
    [][ \A c \in pending' \ pending :
            c.op = "save" =>
                /\ loadedFrom.via = "handle"
                /\ c.handle = loadedFrom.file
      ]_vars

\* C19.  Derived views stay in sync: whenever currentDocument is not null,
\* scrContent is jsonToScr(currentDocument) and dxfContent is
\* jsonToDxf(currentDocument).
C19_ViewsInSync ==
    currentDocument # JsNull =>
        /\ ~jsonToScrThrows(currentDocument)
        /\ ~jsonToDxfThrows(currentDocument)
        /\ scrContent = jsonToScr(currentDocument)
        /\ dxfContent = jsonToDxf(currentDocument)

\* the entities of the LINE/INSERT records of the ENTITIES section (as the
\* section state machine defines it) among the first n pairs of the lines ls
RECURSIVE EntitiesOfRecordsUpTo(_, _)
EntitiesOfRecordsUpTo(ls, n) ==
    IF n = 0 THEN <<>>
    ELSE LET p == 2 * (n - 1)
             before == EntitiesOfRecordsUpTo(ls, n - 1)
         IN  IF RecordAt(ls, p, "LINE") /\ InEntities(ls, p)
             THEN Append(before, parseLine(ls, p))
             ELSE IF RecordAt(ls, p, "INSERT") /\ InEntities(ls, p)
                  THEN Append(before, parseInsert(ls, p))
                  ELSE before

\* C21.  Decode order: at every step of the parse the entity list is the
\* in-order sequence of the entities of the LINE/INSERT records of the
\* ENTITIES section that the cursor has passed: one entity per record, in
\* order of appearance, none twice.
C21_DecodeOrder ==
    pc \in {"main", "parseLine", "parseInsert", "parsed"} =>
        entities = EntitiesOfRecordsUpTo(lines, (IF i < Len(lines) + 1 THEN i ELSE Len(lines) + 1) \div 2)

\* C21, the part that holds: the entity list only grows, by the entity of the
\* LINE/INSERT record under the cursor, and the cursor then moves on.
C21_AppendsInOrder ==
    [][ entities' # entities /\ pc # "parse" =>
            /\ RecordAt(lines, i, "LINE") \/ RecordAt(lines, i, "INSERT")
            /\ entities' = Append(entities,
                                   IF RecordAt(lines, i, "LINE") THEN parseLine(lines, i)
                                   ELSE parseInsert(lines, i))
            /\ i' > i
      ]_vars

\* the lines of the record that starts at code position p, alone
OwnRecord(ls, p) ==
    SubSeq(ls, p + 1, IF RecordEnd(ls, p) < Len(ls) THEN RecordEnd(ls, p) ELSE Len(ls))

\* the entity of the record at p decoded from the record's own lines
OwnEntity(ls, p, kind) ==
    IF kind = "parseLine" THEN parseLine(OwnRecord(ls, p), 0)
    ELSE parseInsert(OwnRecord(ls, p), 0)

\* C22.  Entity body boundary: the entity appended for a record is the one its
\* own lines give (from its 0/NAME pair up to the next pair with code 0), so
\* pairs of later or earlier records set none of its fields; and no step
\* changes an entity appended before.
C22_BodyBoundary ==
    [][ pc # "parse" =>
            IF pc \in {"parseLine", "parseInsert"} /\ pc' = "main"
            THEN entities' = Append(entities, OwnEntity(lines, i, pc))
            ELSE entities' = entities
      ]_vars

\* C22 witness: a LINE record and the INSERT record right after it, with
\* different layers, have both been decoded, each with its own layer.
C22_Witness ==
    /\ pc = "parsed" /\ Len(entities) = 2
    /\ \E p \in CodePositions(lines) :
          LET q == RecordEnd(lines, p)
          IN  /\ RecordAt(lines, p, "LINE") /\ HasCode(lines, p, "8")
              /\ q < Len(lines)
              /\ RecordAt(lines, q, "INSERT") /\ HasCode(lines, q, "8")
              /\ ValueOf(lines, q, "8") # ValueOf(lines, p, "8")
              /\ entities[1].layer = ValueOf(lines, p, "8")
              /\ entities[2].layer = ValueOf(lines, q, "8")

\* the group codes of the field table of a kind, by the body loop that decodes it
FieldCodes(kind) ==
    IF kind = "parseLine" THEN {"8", "10", "20", "30", "11", "21", "31"}
    ELSE {"2", "8", "10", "20", "30", "41", "42", "43", "50"}

\* the pairs of ls from line k on whose code is in codes
RECURSIVE KnownPairsFrom(_, _, _)
KnownPairsFrom(ls, k, codes) ==
    IF ~(k < Len(ls)) THEN <<>>
    ELSE (IF At(ls, k) \in codes
          THEN SubSeq(ls, k + 1, IF k + 1 < Len(ls) THEN k + 2 ELSE k + 1)
          ELSE <<>>) \o KnownPairsFrom(ls, k + 2, codes)

\* the record at p without the pairs whose code is not in the kind's table
WithoutUnknownCodes(ls, p, kind) ==
    LET own == OwnRecord(ls, p)
    IN  SubSeq(own, 1, 2) \o KnownPairsFrom(own, 2, FieldCodes(kind))

\* C23.  Unknown group codes are ignored: a body-loop step on a pair whose code
\* is not in the kind's field table changes neither the entity under
\* construction nor the entity list, raises no error and stays in the body
\* loop, moving to the next pair; and the entity returned is the one decoded
\* from the record without such pairs (the pairs after them are applied).
C23_UnknownCodesIgnored ==
    [][ /\ (/\ pc \in {"parseLine", "parseInsert"}
            /\ BodyContinues(lines, j)
            /\ At(lines, j) \notin FieldCodes(pc)) =>
                /\ entity' = entity /\ entities' = entities
                /\ thrown' = thrown
                /\ pc' = pc /\ j' = j + 2
        /\ (pc \in {"parseLine", "parseInsert"} /\ pc' = "main") =>
                entities' = Append(entities,
                    IF pc = "parseLine"
                    THEN parseLine(WithoutUnknownCodes(lines, i, pc), 0)
                    ELSE parseInsert(WithoutUnknownCodes(lines, i, pc), 0))
      ]_vars

\* C23 witness: a LINE record has been decoded whose body holds a pair with an
\* unknown code and, after it, a layer pair, and the entity has that layer.
C23_Witness ==
    /\ pc = "main" /\ Len(entities) > 0
    /\ RecordAt(lines, i - 2, "LINE")
    /\ \E k, m \in BodyCodes(lines, i - 2) :
          /\ k < m
          /\ At(lines, k) \notin FieldCodes("parseLine")
          /\ At(lines, m) = "8"
          /\ At(lines, m + 1) = ValueOf(lines, i - 2, "8")
          /\ entities[Len(entities)].layer = At(lines, m + 1)
          /\ entities[Len(entities)].layer # "0"

\* every entity of the document is of a kind the decoder decodes
OnlyDecodedKinds(doc) ==
    \A k \in 1..Len(doc.entities) : doc.entities[k].type \in {"LINE", "INSERT"}

\* C24.  INSERT block-name default on encode: for an INSERT entity whose block
\* name is absent or the empty string, the record jsonToDxf writes decodes
\* with block "" again (the default block name is written under code 2).
C24_BlockDefault ==
    (pc = "parsed" /\ OnlyDecodedKinds(document)) =>
        \A k \in 1..Len(document.entities) :
            (/\ document.entities[k].type = "INSERT"
             /\ Field(document.entities[k], "block", "") = "") =>
                /\ k <= Len(entities)
                /\ entities[k].block = ""

\* the number of steps the decode can still take is at most Variant
Variant ==
    LET width == Len(lines) + 4
    IN  CASE pc = "parse" -> 3 + (Len(fileContent) + 4) * (Len(fileContent) + 4)
          [] pc = "main" -> 2 + width * (width - i)
          [] pc \in {"parseLine", "parseInsert"} -> 2 + width * (width - i) - (j - i)
          [] pc = "parsed" -> 1
          [] OTHER -> 0

\* C25.  Decode terminates and stays pair-aligned: every decode reaches the
\* return of parseBasicDxf; the main cursor always rests on an even line
\* index; an iteration of the main loop runs only with the cursor before the
\* end of the lines and moves it on by 2 or by 4; an iteration of a body loop
\* runs only with its cursor before the end of the lines and moves it on by 2;
\* every step lowers a natural-number bound on the steps still to come.
C25_TerminatesAligned ==
    /\ <>(pc = "parsed")
    /\ [](Variant \in Nat)
    /\ [][Variant' < Variant]_vars
    /\ [](pc \in {"main", "parseLine", "parseInsert", "parsed"} => i % 2 = 0)
    /\ [][ /\ (pc = "main" /\ pc' = "main") =>
                 (i < Len(lines) /\ i' \in {i + 2, i + 4})
           /\ (pc = "main" /\ pc' \in {"parseLine", "parseInsert"}) =>
                 (i < Len(lines) /\ i' = i /\ j' = i + 2)
           /\ (pc \in {"parseLine", "parseInsert"} /\ pc' = pc) =>
                 (j < Len(lines) /\ j' = j + 2 /\ i' = i)
           /\ (pc \in {"parseLine", "parseInsert"} /\ pc' = "main") =>
                 i' = i + 2
           /\ (pc = "main" /\ pc' = "parsed") => ~(i < Len(lines))
         ]_vars

\* C25 witness: a text with a dangling last line and an ENTITIES header has
\* been decoded to the end, with an entity decoded on the way.
C25_Witness ==
    /\ pc = "parsed"
    /\ IsEntitiesHeader(lines, 0)
    /\ Len(lines) % 2 = 1
    /\ Len(entities) > 0
    /\ ~(i < Len(lines)) /\ i % 2 = 0

\* the numeric group codes of the interchange format
GroupCodes == { NatToString(n) : n \in 0..1071 }

\* the names that follow code 0 in an encoder output
MarkerNames ==
    {"SECTION", "ENDSEC", "TABLE", "ENDTAB", "LAYER", "LINE", "INSERT", "CIRCLE", "EOF"}

\* C26.  Encoder output is a well-formed pair stream: the output of jsonToDxf
\* ends with a line break and has an even number of lines; every
\* even-indexed line (0-based) is a numeric group code, followed by its value;
\* and every 0/SECTION, 0/ENDSEC, 0/<ENTITY> marker starts at an even index,
\* where the decoder's cursor reads group codes.
C26_PairStream ==
    pc = "parse" =>
        LET count == Len(fileContent) - 1
        IN  /\ fileContent[Len(fileContent)] = ""
            /\ count % 2 = 0
            /\ \A k \in 0..(count - 1) :
                  /\ k % 2 = 0 => At(fileContent, k) \in GroupCodes
                  /\ (At(fileContent, k) = "0" /\ At(fileContent, k + 1) \in MarkerNames) =>
                        k % 2 = 0
            /\ \A k \in 1..Len(document.entities) :
                  document.entities[k].type \in {"LINE", "INSERT", "CIRCLE"} =>
                      \E p \in CodePositions(fileContent) :
                          RecordAt(fileContent, p, document.entities[k].type)

\* C26 witness: a document with a LINE, an INSERT and a CIRCLE has been
\* encoded, one of them on the default layer "0".
C26_Witness ==
    /\ pc = "parse"
    /\ \A kind \in {"LINE", "INSERT", "CIRCLE"} :
          /\ \E k \in 1..Len(document.entities) : document.entities[k].type = kind
          /\ \E p \in CodePositions(fileContent) : RecordAt(fileContent, p, kind)
    /\ \E p \in CodePositions(fileContent) :
          At(fileContent, p) = "8" /\ At(fileContent, p + 1) = "0"

\* the layers that have a LAYER record in the TABLES block of the lines ls
DeclaredLayers(ls) ==
    { At(ls, p + 3) : p \in { q \in CodePositions(ls) :
                                /\ RecordAt(ls, q, "LAYER")
                                /\ MachineState(ls, q) = "Tables"
                                /\ At(ls, q + 2) = "2" } }

\* C27.  Every emitted layer is declared: in the output of jsonToDxf every
\* record of the ENTITIES block has a layer under code 8, and that layer (the
\* fallback "0" of an entity without layer included) has a LAYER record in
\* the TABLES block of the same output.
C27_LayersDeclared ==
    pc = "parse" =>
        LET ls == SubSeq(fileContent, 1, Len(fileContent) - 1)
            emitted == RecordLayersUpTo(ls, Len(ls) \div 2)
        IN  /\ Len(emitted) = Len(SupportedLayers(document.entities, Len(document.entities)))
            /\ \A k \in 1..Len(emitted) :
                  emitted[k] # Undefined /\ emitted[k] \in DeclaredLayers(ls)

\* C27 witness: the output holds a record on the fallback layer "0", written
\* for an entity with an empty layer, and a record on a named layer.
C27_Witness ==
    /\ pc = "parse"
    /\ \E a, b \in 1..Len(document.entities) :
          /\ Supported(document.entities[a]) /\ document.entities[a].layer = ""
          /\ Supported(document.entities[b]) /\ document.entities[b].layer = "FURN"
    /\ LET ls == SubSeq(fileContent, 1, Len(fileContent) - 1)
           emitted == RecordLayersUpTo(ls, Len(ls) \div 2)
       IN  /\ \E k \in 1..Len(emitted) : emitted[k] = "0"
           /\ \E k \in 1..Len(emitted) : emitted[k] = "FURN"
           /\ {"0", "FURN"} \subseteq DeclaredLayers(ls)

\* the state clearAll leaves
Cleared ==
    /\ currentDocument = JsNull /\ currentFileHandle = NoHandle
    /\ jsonContent = EmptyJson /\ scrContent = <<>> /\ dxfContent = EmptyStr
    /\ fileMetadata = JsNull /\ storedMetadata = JsNull

\* C29.  Clear is not undone by in-flight work: when an openFileWithHandle or
\* reloadFromDisk call is the only call suspended and the state is the cleared
\* state (both calls hold a file handle when they suspend, so clearAll has run
\* since, and nothing was edited afterwards), the step that completes the call
\* leaves the cleared state in place.
C29_ClearNotUndone ==
    [][ \A c \in pending :
            (/\ c.op \in {"open", "reload"} /\ c.at \in {"read", "text"}
             /\ pending = {c} /\ pending' = {}
             /\ Cleared) => Cleared'
      ]_vars

\* C28.  Write requires permission: a writable exists only if readwrite
\* permission was 'granted', by the query or by the one request made after a
\* query that did not give it; a request that is not granted makes the call
\* throw 'Write permission denied' with no writable created and the file as
\* it was; the file changes only when the writable is closed after the
\* write, and a call that returns has closed its writable and left the
\* content in the file.
C28_WriteNeedsPermission ==
    /\ [](/\ permissionRequests \in {0, 1}
          /\ permissionRequests = 1 <=> newPermission # Undefined
          /\ permissionRequests = 1 => (permission # Undefined /\ permission # "granted")
          /\ writable.state # "none" =>
                IF permissionRequests = 0 THEN permission = "granted"
                ELSE newPermission = "granted"
          /\ (newPermission # Undefined /\ newPermission # "granted") =>
                /\ wpc = "thrown" /\ writeError = PermissionDenied
                /\ writable = NoWritable
                /\ disk = DiskAtStart
          /\ wpc = "returned" =>
                /\ writable = [state |-> "closed", data |-> content]
                /\ disk[handle].content = content
                /\ writeError = NoError)
    /\ [][ /\ writable'.state = "closed" => writable = [state |-> "open", data |-> content]
           /\ disk' # disk => (writable.state = "open" /\ writable'.state = "closed")
         ]_vars

\* C28 witness: the query gave 'prompt', the request 'granted', and the call
\* has returned with the new content in the file.
C28_Witness ==
    /\ wpc = "returned"
    /\ permission = "prompt" /\ newPermission = "granted"
    /\ permissionRequests = 1
    /\ writable.state = "closed"
    /\ disk[handle].content = content
    /\ DiskAtStart[handle].content # content

\* C30.  Resized images line up with their sizes: resizeImage resolves only
\* after every toBlob callback has run, and to a list with one blob per
\* requested size whose i-th blob is the image rendered at sizes[i], in
\* whatever order the callbacks ran and whether or not one was handed null.
C30_BlobsLineUp ==
    resolved.state = "fulfilled" =>
        /\ promises = {}
        /\ Len(resolved.value) = Len(sizes)
        /\ \A k \in 1..Len(resolved.value) :
              k <= Len(sizes) => resolved.value[k] = BlobOf(sizes[k])

\* C30, the part that holds: the promise is fulfilled only after every
\* callback has run, with the blobs the callbacks pushed.
C30_ResolvesAfterCallbacks ==
    resolved.state = "fulfilled" => (promises = {} /\ resolved.value = blobs)

====
